---- MODULE Spec2Model ----
(***************************************************************************)
(* One conversational turn of the chat orchestrator                        *)
(* (backend/app/langgraph/orchestrator.py, routers/chat.py,                *)
(* services/agent_client.py).                                              *)
(*                                                                         *)
(* Strings are sequences of one-character strings, so that str.lower(),    *)
(* str.strip() and the substring test `kw in text` are computed the way    *)
(* Python computes them.  Confidence scores are hundredths (0.8 is 80).    *)
(*                                                                         *)
(* Further parts: the document-search handler (agents/rag_knowledge.py),   *)
(* the KPI store (routers/kpi.py) and two turns served concurrently.       *)
(***************************************************************************)
EXTENDS Integers, Sequences, FiniteSets, TLC

VARIABLES
    pc,                  \* position of the turn in chat_endpoint / run_chat
    message,             \* ChatRequest.message
    state,               \* the AgentState dict threaded through the graph
    llm,                 \* what the last get_llm()/llm.invoke did
    decision,            \* _plan's local `decision` (classifier reply, stripped, lowered)
    outcome,             \* what the collaborator of the agent node did
    raised,              \* the step an exception escaped from
    confidence_level,    \* run_chat's local confidence_level
    follow_up_questions, \* run_chat's local follow_up_questions
    preference,          \* settings.llm_preference
    reply,               \* the text the LLM answered the follow-up prompt with
    trace,               \* the steps of the turn that have run, in order
    net,                 \* the blocking network calls issued so far
    history,             \* ChatRequest.history
    metadata,            \* ChatRequest.metadata
    agent_request,       \* the AgentRequest _call_agent_via_http built
    llm_messages,        \* the messages of the turn's last llm.invoke
    handler_ops,         \* the collaborator calls the handler made for its reply
    retrieved,           \* what search_with_scores gave the document-search handler
    custom_kpis,         \* routers/kpi.py _custom_kpis
    kpi_calls,           \* the calls of update_kpis and get_kpis so far, with results
    turns,               \* the turns in flight, each with its own AgentState
    agent_client         \* services/agent_client.py _agent_client

vars == <<pc, message, state, llm, decision, outcome, raised,
          confidence_level, follow_up_questions, preference, reply, trace, net,
          history, metadata, agent_request, llm_messages, handler_ops,
          retrieved, custom_kpis, kpi_calls, turns, agent_client>>

\* the caller's request apart from the message; no step writes it
callerVars == <<history, metadata>>

\* the state of the document-search handler, the KPI store and the
\* concurrent turns, which a single turn leaves alone
otherVars == <<retrieved, custom_kpis, kpi_calls, turns>>

(***************************************************************************)
(* Bounds of the model.                                                    *)
(***************************************************************************)
MaxPieces == 2       \* a message is at most this many phrases joined by spaces
MaxHistory == 5      \* the longest history a caller supplies
MaxDocs == 3         \* the most documents a retrieval returns in the model
MaxCalls == 3        \* the most calls made to the KPI router
MaxTurns == 2        \* the number of turns served at the same time

(***************************************************************************)
(* Python string primitives.                                               *)
(***************************************************************************)
UpperCase == <<"A","B","C","D","E","F","G","H","I","J","K","L","M",
               "N","O","P","Q","R","S","T","U","V","W","X","Y","Z">>
LowerCase == <<"a","b","c","d","e","f","g","h","i","j","k","l","m",
               "n","o","p","q","r","s","t","u","v","w","x","y","z">>

LowerChar(c) ==
    IF \E i \in DOMAIN UpperCase : UpperCase[i] = c
    THEN LowerCase[CHOOSE i \in DOMAIN UpperCase : UpperCase[i] = c]
    ELSE c

\* str.lower()
Lower(s) == [i \in DOMAIN s |-> LowerChar(s[i])]

\* the characters str.strip() and str.split() treat as whitespace
Whitespace == {" ", "\t", "\n", "\r"}

RECURSIVE LStrip(_)
LStrip(s) ==
    IF s # <<>> /\ Head(s) \in Whitespace THEN LStrip(Tail(s)) ELSE s

RECURSIVE RStrip(_)
RStrip(s) ==
    IF s # <<>> /\ s[Len(s)] \in Whitespace
    THEN RStrip(SubSeq(s, 1, Len(s) - 1))
    ELSE s

\* str.strip()
Strip(s) == RStrip(LStrip(s))

\* the Python test `sub in s` on strings
Contains(s, sub) ==
    \E i \in 0..(Len(s) - Len(sub)) : SubSeq(s, i + 1, i + Len(sub)) = sub

\* any(kw in s for kw in kws)
ContainsAny(s, kws) == \E k \in DOMAIN kws : Contains(s, kws[k])

(***************************************************************************)
(* The planner's tables.                                                   *)
(***************************************************************************)
\* the declaration order of the Plan vocabulary
PLAN_TYPES == <<"direct", "rag_knowledge", "web_search", "time_location">>

\* no plan token recognised (Python None)
None == "None"

\* the planner's keyword table, with direct first as in PLAN_TYPES
AgentKeywordsDeclarationOrder ==
    << [agent_type |-> "direct",
        keywords |-> << <<"d","i","r","e","c","t">> >>],
       [agent_type |-> "rag_knowledge",
        keywords |-> << <<"r","a","g","_","k","n","o","w","l","e","d","g","e">>,
                        <<"r","a","g">>,
                        <<"k","n","o","w","l","e","d","g","e">>,
                        <<"d","o","c","u","m","e","n","t">>,
                        <<"f","i","l","e">>,
                        <<"u","p","l","o","a","d">> >>],
       [agent_type |-> "web_search",
        keywords |-> << <<"w","e","b","_","s","e","a","r","c","h">>,
                        <<"w","e","b">>,
                        <<"s","e","a","r","c","h">>,
                        <<"l","a","t","e","s","t">>,
                        <<"n","e","w","s">>,
                        <<"o","n","l","i","n","e">> >>],
       [agent_type |-> "time_location",
        keywords |-> << <<"t","i","m","e","_","l","o","c","a","t","i","o","n">>,
                        <<"t","i","m","e"," ","l","o","c","a","t","i","o","n">>,
                        <<"t","i","m","e"," ","&"," ","l","o","c","a","t","i","o","n">> >>] >>

\* agent_keywords of _plan, in the order the dict literal lists its keys
\* (a str value is tested like a one-element list: `keywords in decision`)
agent_keywords ==
    << [agent_type |-> "rag_knowledge",
        keywords |-> << <<"r","a","g","_","k","n","o","w","l","e","d","g","e">>,
                        <<"r","a","g">>,
                        <<"k","n","o","w","l","e","d","g","e">>,
                        <<"d","o","c","u","m","e","n","t">>,
                        <<"f","i","l","e">>,
                        <<"u","p","l","o","a","d">> >>],
       [agent_type |-> "web_search",
        keywords |-> << <<"w","e","b","_","s","e","a","r","c","h">>,
                        <<"w","e","b">>,
                        <<"s","e","a","r","c","h">>,
                        <<"l","a","t","e","s","t">>,
                        <<"n","e","w","s">>,
                        <<"o","n","l","i","n","e">> >>],
       [agent_type |-> "time_location",
        keywords |-> << <<"t","i","m","e","_","l","o","c","a","t","i","o","n">>,
                        <<"t","i","m","e"," ","l","o","c","a","t","i","o","n">>,
                        <<"t","i","m","e"," ","&"," ","l","o","c","a","t","i","o","n">> >>],
       [agent_type |-> "direct",
        keywords |-> << <<"d","i","r","e","c","t">> >>] >>

\* the phrases that force web_search
WebPhrases ==
    << <<"a","c","c","e","s","s"," ","t","h","e"," ","i","n","t","e","r","n","e","t">>,
       <<"a","c","c","e","s","s"," ","i","n","t","e","r","n","e","t">>,
       <<"a","c","c","e","s","s"," ","t","h","e"," ","w","e","b">>,
       <<"r","e","a","l","-","t","i","m","e"," ","d","a","t","a">>,
       <<"r","e","a","l"," ","t","i","m","e"," ","d","a","t","a">>,
       <<"u","s","e"," ","t","h","e"," ","i","n","t","e","r","n","e","t">> >>

\* the phrases that force time_location
TimePhrases ==
    << <<"w","h","a","t"," ","t","i","m","e"," ","i","s"," ","i","t">>,
       <<"c","u","r","r","e","n","t"," ","t","i","m","e">>,
       <<"t","i","m","e"," ","n","o","w">>,
       <<"w","h","a","t","'","s"," ","t","h","e"," ","t","i","m","e">>,
       <<"w","h","e","r","e"," ","a","m"," ","i">>,
       <<"m","y"," ","l","o","c","a","t","i","o","n">>,
       <<"c","u","r","r","e","n","t"," ","l","o","c","a","t","i","o","n">> >>

\* the for loop of _plan over agent_keywords.items(), from entry i on:
\* the first entry with a keyword inside `text` sets token and breaks
RECURSIVE ScanKeywords(_, _, _)
ScanKeywords(table, i, text) ==
    IF i > Len(table) THEN None
    ELSE IF ContainsAny(text, table[i].keywords) THEN table[i].agent_type
    ELSE ScanKeywords(table, i + 1, text)

\* token after the keyword loop
KeywordToken(text) == ScanKeywords(agent_keywords, 1, text)

\* str(getattr(decision_raw, "content", decision_raw)).strip().lower()
Decision(content) == Lower(Strip(content))

PlanTokenWebLast(prompt, text) ==
    LET prompt_lower == Lower(prompt)
        token1 == KeywordToken(text)
        token2 == IF ContainsAny(prompt_lower, TimePhrases)
                  THEN "time_location" ELSE token1
        token3 == IF ContainsAny(prompt_lower, WebPhrases)
                  THEN "web_search" ELSE token2
    IN  IF token3 = None THEN "direct" ELSE token3

PlanTokenCaseSensitive(prompt, text) ==
    LET token1 == KeywordToken(text)
        token2 == IF ContainsAny(prompt, WebPhrases)
                  THEN "web_search" ELSE token1
        token3 == IF ContainsAny(prompt, TimePhrases)
                  THEN "time_location" ELSE token2
    IN  IF token3 = None THEN "direct" ELSE token3

PlanTokenDefaultsToWeb(prompt, text) ==
    LET prompt_lower == Lower(prompt)
        token1 == KeywordToken(text)
        token2 == IF ContainsAny(prompt_lower, WebPhrases)
                  THEN "web_search" ELSE token1
        token3 == IF ContainsAny(prompt_lower, TimePhrases)
                  THEN "time_location" ELSE token2
    IN  IF token3 = None THEN "web_search" ELSE token3

\* the plan _plan stores once the classifier has replied `text`:
\* keyword token, then the web override, then the time override, then
\* `token or "direct"`
PlanToken(prompt, text) ==
    LET prompt_lower == Lower(prompt)
        token1 == KeywordToken(text)
        token2 == IF ContainsAny(prompt_lower, WebPhrases)
                  THEN "web_search" ELSE token1
        token3 == IF ContainsAny(prompt_lower, TimePhrases)
                  THEN "time_location" ELSE token2
    IN  IF token3 = None THEN "direct" ELSE token3

(***************************************************************************)
(* Confidence banding and the follow-up parser of run_chat.                *)
(***************************************************************************)
LOW_CONFIDENCE_THRESHOLD == 70
MEDIUM_CONFIDENCE_THRESHOLD == 90
DefaultConfidence == 80      \* 0.8, the score of _initial_state and _direct_agent
ErrorConfidence == 0         \* 0.0, the score of a failed agent call
ShortPromptWords == 2        \* word_count <= 2 forces "low"
MaxQuestions == 3            \* max_questions of _build_follow_up_questions
HistoryWindow == 4           \* history[-4:] of _plan and _build_follow_up_questions
MinConfidence == 0           \* ge=0.0 of AgentResponse.confidence
MaxConfidence == 100         \* le=1.0 of AgentResponse.confidence
AgentResponseDefault == 80   \* default=0.8 of AgentResponse.confidence
ClarificationConfidence == 20 \* 0.2, the score of the web handler's clarification
AgentTimeout == 60           \* AgentClient.timeout, in seconds

\* an absent score (Python None where a float is expected)
NoScore == -1

ComputeConfidenceLevelInclusive(score) ==
    IF score = NoScore THEN None
    ELSE IF score <= LOW_CONFIDENCE_THRESHOLD THEN "low"
    ELSE IF score <= MEDIUM_CONFIDENCE_THRESHOLD THEN "medium"
    ELSE "high"

\* _compute_confidence_level
ComputeConfidenceLevel(score) ==
    IF score = NoScore THEN None
    ELSE IF score < LOW_CONFIDENCE_THRESHOLD THEN "low"
    ELSE IF score < MEDIUM_CONFIDENCE_THRESHOLD THEN "medium"
    ELSE "high"

\* len(s.split()): the number of maximal runs of non-whitespace characters
WordCount(s) ==
    Cardinality({i \in DOMAIN s :
        /\ s[i] \notin Whitespace
        /\ (i = 1 \/ s[i - 1] \in Whitespace)})

\* the line boundaries of str.splitlines() that the model's texts use
LineBreaks == {"\n", "\r"}

\* str.splitlines(): "\r\n" is one boundary, no empty last line
RECURSIVE SplitLines(_)
SplitLines(s) ==
    IF s = <<>> THEN <<>>
    ELSE IF \A i \in DOMAIN s : s[i] \notin LineBreaks THEN <<s>>
    ELSE LET i == CHOOSE k \in DOMAIN s :
                      /\ s[k] \in LineBreaks
                      /\ \A j \in 1..(k - 1) : s[j] \notin LineBreaks
             n == IF s[i] = "\r" /\ i < Len(s) /\ s[i + 1] = "\n"
                  THEN i + 1 ELSE i
         IN  <<SubSeq(s, 1, i - 1)>> \o SplitLines(SubSeq(s, n + 1, Len(s)))

\* the characters of line.strip(" -\t")
BulletChars == {" ", "-", "\t"}

RECURSIVE StripBullets(_)
StripBullets(s) ==
    IF s # <<>> /\ Head(s) \in BulletChars THEN StripBullets(Tail(s))
    ELSE IF s # <<>> /\ s[Len(s)] \in BulletChars
    THEN StripBullets(SubSeq(s, 1, Len(s) - 1))
    ELSE s

\* [q for q in questions if q]
NonEmpty(q) == q # <<>>

ParseQuestionsTruncatesFirst(text) ==
    LET lines == SplitLines(text)
        first == SubSeq(lines, 1, IF Len(lines) < MaxQuestions
                                  THEN Len(lines) ELSE MaxQuestions)
        questions == [i \in DOMAIN first |-> StripBullets(first[i])]
    IN  SelectSeq(questions, NonEmpty)

\* the parsing of the classifier's text in _build_follow_up_questions
ParseQuestions(text) ==
    LET lines == SplitLines(text)
        questions == [i \in DOMAIN lines |-> StripBullets(lines[i])]
        kept == SelectSeq(questions, NonEmpty)
    IN  SubSeq(kept, 1, IF Len(kept) < MaxQuestions THEN Len(kept) ELSE MaxQuestions)

(***************************************************************************)
(* The dispatcher's strings.                                               *)
(***************************************************************************)
\* the endpoint name each HTTP agent node passes to _call_agent_via_http
AgentName(node) ==
    IF node = "rag_knowledge"
    THEN <<"r","a","g","-","k","n","o","w","l","e","d","g","e">>
    ELSE <<"w","e","b","-","s","e","a","r","c","h">>

\* f"Error calling agent {agent_name}"
ErrorMsg(agent_name) ==
    <<"E","r","r","o","r"," ","c","a","l","l","i","n","g"," ",
      "a","g","e","n","t"," ">> \o agent_name

\* the answer of _invoke_llm when get_llm() is None and there is no context
LlmUnavailableText ==
    <<"(","L","L","M"," ","u","n","a","v","a","i","l","a","b","l","e"," ",
      "r","i","g","h","t"," ","n","o","w",".",")">>

\* str(e) of the pydantic ValidationError of AgentResponse(**data)
ValidationErrorText ==
    <<"1"," ","v","a","l","i","d","a","t","i","o","n"," ","e","r","r","o","r"," ",
      "f","o","r"," ","A","g","e","n","t","R","e","s","p","o","n","s","e">>

\* the first sentence of PLANNER_PROMPT
PlannerPromptText ==
    <<"D","e","c","i","d","e"," ","t","h","e"," ","b","e","s","t"," ","t","o","o","l"," ",
      "f","o","r"," ","t","h","e"," ","n","e","x","t"," ","r","e","s","p","o","n","s","e",".">>

\* the first sentence of the system message of _build_follow_up_questions
FollowUpPromptText ==
    <<"Y","o","u"," ","a","r","e"," ","h","e","l","p","i","n","g"," ","i","m","p","r","o","v","e"," ",
      "a","n","s","w","e","r"," ","q","u","a","l","i","t","y"," ","b","y"," ","a","s","k","i","n","g"," ",
      "c","l","a","r","i","f","y","i","n","g"," ","q","u","e","s","t","i","o","n","s",".">>

\* the first words of SYSTEM_PROMPT
SystemPromptText == <<"Y","o","u"," ","a","r","e"," ","N","o","v","a">>

\* f"User query: {prompt}"
UserQuery(prompt) ==
    <<"U","s","e","r"," ","q","u","e","r","y",":"," ">> \o prompt

\* generic_phrases of the web-search handler
GenericPhrases ==
    << <<"c","h","e","c","k"," ","i","n","t","e","r","n","e","t">>,
       <<"c","h","e","c","k"," ","t","h","e"," ","i","n","t","e","r","n","e","t">>,
       <<"a","c","c","e","s","s"," ","i","n","t","e","r","n","e","t">>,
       <<"a","c","c","e","s","s"," ","t","h","e"," ","i","n","t","e","r","n","e","t">>,
       <<"s","e","a","r","c","h"," ","t","h","e"," ","w","e","b">>,
       <<"s","e","a","r","c","h"," ","i","n","t","e","r","n","e","t">>,
       <<"u","s","e"," ","t","h","e"," ","i","n","t","e","r","n","e","t">>,
       <<"d","o"," ","a"," ","w","e","b"," ","s","e","a","r","c","h">> >>

\* the first sentence of the web-search handler's clarification
ClarificationText ==
    <<"I"," ","c","a","n"," ","s","e","a","r","c","h"," ","t","h","e"," ",
      "i","n","t","e","r","n","e","t",","," ","b","u","t"," ","t","h","i","s"," ",
      "r","e","q","u","e","s","t"," ","i","s"," ","t","o","o"," ","b","r","o","a","d",".">>

(***************************************************************************)
(* What the caller supplies besides the message.                           *)
(***************************************************************************)
Digits == <<"1","2","3","4","5","6","7","8","9">>

\* the ChatMessage at position i of the caller's conversation
ChatMessageAt(i) ==
    [role |-> IF i % 3 = 1 THEN "user"
              ELSE IF i % 3 = 2 THEN "assistant" ELSE "system",
     content |-> <<"m", Digits[i]>>]

\* ChatRequest.history: none, as long as the planner's window, or longer
Histories ==
    {[i \in 1..n |-> ChatMessageAt(i)] : n \in {0, HistoryWindow, MaxHistory}}

\* ChatRequest.metadata: null, or a dict in which "lastSources" is absent,
\* null or a list
Metadatas ==
    { [is_null |-> TRUE,  lastSources |-> [tag |-> "absent", items |-> <<>>]],
      [is_null |-> FALSE, lastSources |-> [tag |-> "absent", items |-> <<>>]],
      [is_null |-> FALSE, lastSources |-> [tag |-> "null", items |-> <<>>]],
      [is_null |-> FALSE, lastSources |-> [tag |-> "list", items |-> <<>>]],
      [is_null |-> FALSE, lastSources |-> [tag |-> "list",
                                           items |-> <<"b.pdf", "a.pdf">>]] }

PreferredSourcesFromOtherKey(md) == <<>>

\* _initial_state: (request.metadata or {}).get("lastSources") or []
PreferredSources(md) ==
    LET got == IF md.is_null THEN [tag |-> "absent", items |-> <<>>]
               ELSE md.lastSources
    IN  IF got.tag = "list" /\ got.items # <<>> THEN got.items ELSE <<>>

\* _build_history_messages: an assistant message becomes an AIMessage, any
\* other a HumanMessage
BuildHistoryMessages(h) ==
    [i \in DOMAIN h |->
        [type |-> IF h[i].role = "assistant" THEN "ai" ELSE "human",
         content |-> h[i].content]]

RecentOldestFirst(msgs) ==
    SubSeq(msgs, 1, IF Len(msgs) < HistoryWindow THEN Len(msgs) ELSE HistoryWindow)

\* msgs[-4:]
Recent(msgs) ==
    IF Len(msgs) <= HistoryWindow THEN msgs
    ELSE SubSeq(msgs, Len(msgs) - HistoryWindow + 1, Len(msgs))

\* the messages _plan passes to llm.invoke
PlannerMessages(st) ==
    <<[type |-> "system", content |-> PlannerPromptText]>>
    \o Recent(BuildHistoryMessages(st.history))
    \o <<[type |-> "human", content |-> UserQuery(st.prompt)]>>

\* the messages _build_follow_up_questions passes to llm.invoke
FollowUpMessages(st) ==
    <<[type |-> "system", content |-> FollowUpPromptText]>>
    \o Recent(BuildHistoryMessages(st.history))
    \o <<[type |-> "human", content |-> UserQuery(st.prompt)]>>

\* the messages _invoke_llm passes to llm.invoke for _direct_agent: the
\* whole history, no context, no web results
DirectMessages(st) ==
    <<[type |-> "system", content |-> SystemPromptText]>>
    \o BuildHistoryMessages(st.history)
    \o <<[type |-> "human", content |-> st.prompt]>>

(***************************************************************************)
(* What the collaborators can do.                                          *)
(***************************************************************************)
\* phrases a caller's message is made of
Pieces ==
    { <<"w","h","a","t"," ","t","i","m","e"," ","i","s"," ","i","t">>,
      <<"W","h","a","t"," ","T","i","m","e"," ","I","s"," ","I","t">>,
      <<"a","c","c","e","s","s"," ","t","h","e"," ","i","n","t","e","r","n","e","t">>,
      <<"s","e","a","r","c","h"," ","t","h","e"," ","w","e","b">>,
      <<"c","u","r","r","e","n","t"," ","t","i","m","e">>,
      <<"h","i">>,
      <<"m","y"," ","l","o","c","a","t","i","o","n">>,
      <<" ">> }

RECURSIVE MessagesOf(_)
MessagesOf(n) ==
    IF n = 0 THEN {<<>>}
    ELSE IF n = 1 THEN Pieces
    ELSE {m \o <<" ">> \o p : m \in MessagesOf(n - 1), p \in Pieces}

Messages == UNION {MessagesOf(n) : n \in 0..MaxPieces}

\* the content of the classifier's reply to the planner prompt
ClassifierReplies ==
    { <<"r","a","g","_","k","n","o","w","l","e","d","g","e">>,
      <<"w","e","b","_","s","e","a","r","c","h">>,
      <<"t","i","m","e","_","l","o","c","a","t","i","o","n">>,
      <<"d","i","r","e","c","t">>,
      <<" "," ","W","e","b","_","S","e","a","r","c","h","\n">>,
      <<"d","i","r","e","c","t",","," ","n","o"," ","w","e","b">>,
      <<"t","i","m","e"," ","l","o","c","a","t","i","o","n"," ","f","i","l","e">>,
      <<"I"," ","c","a","n","n","o","t">> }

\* the text the LLM answers a direct prompt with
LlmAnswers == { <<"H","e","l","l","o","!">> }

\* the text the LLM answers the follow-up prompt with
FollowUpReplies ==
    { <<"A","?","\n","-"," ","B","?","\n","\n"," ","\n","-","\t","C","?","\n","D","?">>,
      <<"A","?","\r","\n","B","?">>,
      <<"\n"," ","-","\n">>,
      <<"*"," ","A","?"," ","-">>,
      <<>> }

\* a 2xx reply of an agent endpoint that validates as an AgentResponse
AgentReplies ==
    [kind : {"ok"},
     text : { <<"F","o","u","n","d">> },
     sources : { <<>>, <<"a.pdf", "b.pdf", "a.pdf">> },
     confidence : {0, 69, 70, 89, 90, 100}]

\* a 2xx reply whose JSON has no "confidence"
UnscoredReplies ==
    { [kind |-> "unscored", text |-> <<"F","o","u","n","d">>,
       sources |-> <<"a.pdf">>, confidence |-> NoScore] }

\* a 2xx reply whose "confidence" is below 0.0 or above 1.0
OutOfRangeReplies ==
    [kind : {"out_of_range"},
     text : { <<"F","o","u","n","d">> },
     sources : { <<"a.pdf">> },
     confidence : {MinConfidence - 10, MaxConfidence + 50}]

\* the web-search handler's reply to a generic request
ClarificationReply ==
    [kind |-> "ok", text |-> ClarificationText, sources |-> <<>>,
     confidence |-> ClarificationConfidence]

\* the ways client.call_agent raises: httpx.HTTPError without a response
\* (timeout, connection error), httpx.HTTPStatusError with a response whose
\* body is JSON with "detail", JSON without it, JSON that is no object, or no
\* JSON at all; any other exception (2xx body that is not JSON, or that does
\* not validate as an AgentResponse).  text is str(e), the detail or the body.
AgentFailures ==
    { [kind |-> "timeout", text |-> <<"t","i","m","e","d"," ","o","u","t">>,
       sources |-> <<>>, confidence |-> 0],
      [kind |-> "connect_error", text |-> <<"r","e","f","u","s","e","d">>,
       sources |-> <<>>, confidence |-> 0],
      [kind |-> "status_detail", text |-> <<"c","r","a","s","h">>,
       sources |-> <<>>, confidence |-> 0],
      [kind |-> "status_no_detail", text |-> <<"5","0","3">>,
       sources |-> <<>>, confidence |-> 0],
      [kind |-> "status_not_object", text |-> <<"[","]">>,
       sources |-> <<>>, confidence |-> 0],
      [kind |-> "status_not_json", text |-> <<"<","h","t","m","l",">">>,
       sources |-> <<>>, confidence |-> 0],
      [kind |-> "malformed_json", text |-> <<"E","x","p","e","c","t","i","n","g">>,
       sources |-> <<>>, confidence |-> 0],
      [kind |-> "invalid_response", text |-> <<"v","a","l","i","d","a","t","i","o","n">>,
       sources |-> <<>>, confidence |-> 0] }

\* the failures that are httpx.HTTPError
HttpErrorKinds ==
    {"timeout", "connect_error", "status_detail", "status_no_detail",
     "status_not_object", "status_not_json"}

\* the httpx.HTTPError kinds that carry e.response (httpx.HTTPStatusError)
StatusErrorKinds ==
    {"status_detail", "status_no_detail", "status_not_object", "status_not_json"}

\* no collaborator outcome yet
NoOutcome == [kind |-> "none", text |-> <<>>, sources |-> <<>>, confidence |-> 0]

\* what _time_location_agent's upstream did: worldtimeapi answered, or the
\* local clock was used
TimeOutcomes ==
    { [kind |-> "time_api", text |-> <<"1","2",":","0","0"," ","U","T","C">>,
       sources |-> <<>>, confidence |-> 0],
      [kind |-> "time_local", text |-> <<"1","2",":","0","0">>,
       sources |-> <<>>, confidence |-> 0] }

(***************************************************************************)
(* The turn.                                                               *)
(***************************************************************************)
\* settings.llm_preference
Preferences == {"auto", "ollama", "openai", "gemini"}

ProbeCallsTwice(pref) == IF pref \in {"auto", "ollama"} THEN 2 ELSE 0

\* the network calls of one get_llm(): with preference auto or ollama,
\* _build_ollama probes <ollama_base_url>/api/tags before anything else
ProbeCalls(pref) == IF pref \in {"auto", "ollama"} THEN 1 ELSE 0

\* the network calls of _time_location_agent: worldtimeapi.org, and
\* ipapi.co when the prompt mentions "location" or "where"
TimeCalls(prompt) ==
    IF \/ Contains(Lower(prompt), <<"l","o","c","a","t","i","o","n">>)
       \/ Contains(Lower(prompt), <<"w","h","e","r","e">>)
    THEN 2 ELSE 1

\* the AgentState before run_chat builds one
EmptyState ==
    [prompt |-> <<>>, history |-> <<>>, plan |-> "direct", context |-> <<>>,
     sources |-> <<>>, response |-> <<>>, confidence |-> NoScore,
     preferred_sources |-> <<>>]

\* ChatOrchestrator._initial_state
InitialState(msg) ==
    [prompt |-> msg, history |-> history, plan |-> "direct", context |-> <<>>,
     sources |-> <<>>, response |-> <<>>, confidence |-> DefaultConfidence,
     preferred_sources |-> PreferredSources(metadata)]

\* no AgentRequest built yet
NoRequest ==
    [prompt |-> <<>>, history |-> <<>>, context |-> <<>>,
     metadata |-> [preferred_sources |-> <<>>]]

\* the AgentRequest of _call_agent_via_http
BuildAgentRequest(st) ==
    [prompt |-> st.prompt, history |-> st.history, context |-> st.context,
     metadata |-> [preferred_sources |-> st.preferred_sources]]

\* _custom_kpis is None; a stored configuration is [is_none |-> FALSE, config |-> c]
NoKpis == [is_none |-> TRUE]

\* _agent_client is None
NoClient == [created |-> FALSE, base_url |-> "", timeout |-> 0]

\* AgentClient()
AgentClient ==
    [created |-> TRUE, base_url |-> "http://localhost:8000",
     timeout |-> AgentTimeout]

\* get_agent_client: the shared client is created on first use
GetAgentClient(client) == IF client.created THEN client ELSE AgentClient

\* the request contains one of the web-search handler's generic phrases
IsGenericRequest(prompt) == ContainsAny(Lower(Strip(prompt)), GenericPhrases)

WebSearchExecuteSearchesAnyway(request) ==
    {[reply |-> r, ops |-> <<"web_search", "invoke_llm">>] : r \in AgentReplies}

\* execute_agent of the web-search handler: a generic request is answered
\* with the clarification before any search or LLM call; any other request
\* is searched and summarised by the LLM
WebSearchExecute(request) ==
    IF IsGenericRequest(request.prompt)
    THEN {[reply |-> ClarificationReply, ops |-> <<>>]}
    ELSE {[reply |-> r, ops |-> <<"web_search", "invoke_llm">>] : r \in AgentReplies}

\* what the endpoint of an agent node can answer: its handler's reply, a
\* 2xx body that breaks the AgentResponse contract, or a failure
EndpointRuns(node, request) ==
    (IF node = "web_search" THEN WebSearchExecute(request)
     ELSE {[reply |-> r, ops |-> <<"search_with_scores", "invoke_llm">>] :
              r \in AgentReplies})
    \cup (IF node = "web_search" /\ IsGenericRequest(request.prompt) THEN {}
          ELSE {[reply |-> r, ops |-> <<>>] :
                   r \in UnscoredReplies \cup OutOfRangeReplies})
    \cup {[reply |-> r, ops |-> <<>>] : r \in AgentFailures}

AgentResponseOfUnchecked(o) ==
    IF o.kind \in {"ok", "unscored", "out_of_range"}
    THEN [o EXCEPT !.kind = "ok"]
    ELSE o

\* client.call_agent: AgentResponse(**data) gives a missing confidence the
\* default and raises a ValidationError for one outside [0.0, 1.0]; a
\* failure is raised as it is
AgentResponseOf(o) ==
    IF o.kind \in {"ok", "unscored", "out_of_range"}
    THEN IF o.confidence = NoScore
         THEN [o EXCEPT !.kind = "ok", !.confidence = AgentResponseDefault]
         ELSE IF o.confidence >= MinConfidence /\ o.confidence <= MaxConfidence
         THEN [o EXCEPT !.kind = "ok"]
         ELSE [kind |-> "invalid_response", text |-> ValidationErrorText,
               sources |-> <<>>, confidence |-> 0]
    ELSE o

\* _route_plan: the agent node the conditional edge selects
RoutePlan(st) ==
    IF st.plan \in {"rag_knowledge", "web_search", "time_location"}
    THEN st.plan ELSE "direct"

Init ==
    /\ pc = "Start"
    /\ message \in Messages
    /\ preference \in Preferences
    /\ state = EmptyState
    /\ llm = "none"
    /\ decision = <<>>
    /\ outcome = NoOutcome
    /\ raised = "none"
    /\ confidence_level = None
    /\ follow_up_questions = <<>>
    /\ reply = <<>>
    /\ trace = <<>>
    /\ net = 0
    /\ history \in Histories
    /\ metadata \in Metadatas
    /\ agent_request = NoRequest
    /\ llm_messages = <<>>
    /\ handler_ops = <<>>
    /\ retrieved = <<>>
    /\ custom_kpis = NoKpis
    /\ kpi_calls = <<>>
    /\ turns = <<>>
    /\ agent_client = NoClient

RejectAfterPlanning ==
    /\ pc = "Start"
    /\ Strip(message) = <<>>
    /\ pc' = "Rejected"
    /\ trace' = Append(trace, "plan")
    /\ net' = net + 1
    /\ UNCHANGED <<message, preference, state, llm, decision, outcome, raised,
                   confidence_level, follow_up_questions, reply>>
    /\ UNCHANGED <<callerVars, otherVars, agent_request, llm_messages,
                   handler_ops, agent_client>>

\* chat_endpoint: an empty or whitespace-only message is answered 400
Reject ==
    /\ pc = "Start"
    /\ Strip(message) = <<>>
    /\ pc' = "Rejected"
    /\ UNCHANGED <<message, preference, state, llm, decision, outcome, raised,
                   confidence_level, follow_up_questions, reply, trace, net>>
    /\ UNCHANGED <<callerVars, otherVars, agent_request, llm_messages,
                   handler_ops, agent_client>>

\* chat_endpoint -> run_chat -> graph.ainvoke -> _plan, get_llm() is None:
\* the plan is direct and the prompt is not looked at
PlanNoLlm ==
    /\ pc = "Start"
    /\ Strip(message) # <<>>
    /\ llm' = "unavailable"
    /\ state' = [InitialState(message) EXCEPT !.plan = "direct"]
    /\ trace' = Append(trace, "plan")
    /\ net' = net + ProbeCalls(preference)
    /\ pc' = "Planned"
    /\ UNCHANGED <<message, preference, decision, outcome, raised,
                   confidence_level, follow_up_questions, reply>>
    /\ UNCHANGED <<callerVars, otherVars, agent_request, llm_messages,
                   handler_ops, agent_client>>

\* _plan with an LLM whose invoke returns `content`
PlanClassified ==
    /\ pc = "Start"
    /\ Strip(message) # <<>>
    /\ \E content \in ClassifierReplies :
          /\ decision' = Decision(content)
          /\ state' = [InitialState(message) EXCEPT
                          !.plan = PlanToken(message, Decision(content))]
    /\ llm' = "replied"
    /\ trace' = Append(trace, "plan")
    /\ net' = net + ProbeCalls(preference) + 1
    /\ llm_messages' = PlannerMessages(InitialState(message))
    /\ pc' = "Planned"
    /\ UNCHANGED <<message, preference, outcome, raised, confidence_level,
                   follow_up_questions, reply>>
    /\ UNCHANGED <<callerVars, otherVars, agent_request, handler_ops,
                   agent_client>>

\* _plan when get_llm() raises (a provider constructor fails) or the LLM's
\* invoke raises (timeout, connection, API error): nothing catches it
\* before chat_endpoint, which answers 500
PlanRaises ==
    /\ pc = "Start"
    /\ Strip(message) # <<>>
    /\ \/ /\ llm' = "build_raised"
          /\ net' = net + ProbeCalls(preference)
          /\ UNCHANGED llm_messages
       \/ /\ llm' = "raised"
          /\ net' = net + ProbeCalls(preference) + 1
          /\ llm_messages' = PlannerMessages(InitialState(message))
    /\ state' = InitialState(message)
    /\ trace' = Append(trace, "plan")
    /\ raised' = "plan"
    /\ pc' = "Error500"
    /\ UNCHANGED <<message, preference, decision, outcome, confidence_level,
                   follow_up_questions, reply>>
    /\ UNCHANGED <<callerVars, otherVars, agent_request, handler_ops,
                   agent_client>>

\* _direct_agent: _invoke_llm without an LLM, with a replying LLM, or with
\* get_llm() or the LLM's invoke raising (uncaught: chat_endpoint answers 500)
DirectAgent ==
    /\ pc = "Planned"
    /\ RoutePlan(state) = "direct"
    /\ decision' = <<>>
    /\ trace' = Append(trace, "direct_agent")
    /\ \/ /\ llm' = "unavailable"
          /\ net' = net + ProbeCalls(preference)
          /\ state' = [state EXCEPT !.response = LlmUnavailableText,
                                    !.context = <<>>, !.sources = <<>>,
                                    !.confidence = DefaultConfidence]
          /\ pc' = "Dispatched"
          /\ UNCHANGED <<raised, llm_messages>>
       \/ /\ llm' = "replied"
          /\ net' = net + ProbeCalls(preference) + 1
          /\ llm_messages' = DirectMessages(state)
          /\ \E text \in LlmAnswers :
                state' = [state EXCEPT !.response = text,
                                       !.context = <<>>, !.sources = <<>>,
                                       !.confidence = DefaultConfidence]
          /\ pc' = "Dispatched"
          /\ UNCHANGED raised
       \/ /\ \/ /\ llm' = "build_raised"
                /\ net' = net + ProbeCalls(preference)
                /\ UNCHANGED llm_messages
             \/ /\ llm' = "raised"
                /\ net' = net + ProbeCalls(preference) + 1
                /\ llm_messages' = DirectMessages(state)
          /\ raised' = "agent"
          /\ pc' = "Error500"
          /\ UNCHANGED state
    /\ UNCHANGED <<message, preference, outcome, confidence_level,
                   follow_up_questions, reply>>
    /\ UNCHANGED <<callerVars, otherVars, agent_request, handler_ops,
                   agent_client>>

HttpErrorResultKeepsScore(agent_name, o) ==
    [response |-> ErrorMsg(agent_name), sources |-> <<>>,
     confidence |-> state.confidence]

\* the two except branches of _call_agent_via_http
HttpErrorResult(agent_name, o) ==
    [response |->
        IF o.kind \in HttpErrorKinds
        THEN IF o.kind \in StatusErrorKinds
             THEN ErrorMsg(agent_name) \o <<":", " ">> \o o.text
             ELSE ErrorMsg(agent_name)
        ELSE ErrorMsg(agent_name) \o <<":", " ">> \o o.text,
     sources |-> <<>>,
     confidence |-> ErrorConfidence]

\* list(dict.fromkeys(xs)): first occurrences, in order
RECURSIVE FirstSeen(_)
FirstSeen(xs) ==
    IF xs = <<>> THEN <<>>
    ELSE LET init == FirstSeen(SubSeq(xs, 1, Len(xs) - 1))
             last == xs[Len(xs)]
         IN  IF \E i \in DOMAIN init : init[i] = last
             THEN init ELSE Append(init, last)

HttpOkResultDeduplicated(o) ==
    [response |-> o.text, sources |-> FirstSeen(o.sources),
     confidence |-> o.confidence]

\* the try body of _call_agent_via_http: the three fields of the
\* AgentResponse are copied into the state as they are
HttpOkResult(o) ==
    [response |-> o.text, sources |-> o.sources, confidence |-> o.confidence]

\* _call_agent_via_http: the shared client, the AgentRequest, then the try
\* body on success, else an except branch; state["context"] = "" either way
CallAgentViaHttp(node) ==
    /\ pc = "Planned"
    /\ RoutePlan(state) = node
    /\ decision' = <<>>
    /\ agent_client' = GetAgentClient(agent_client)
    /\ agent_request' = BuildAgentRequest(state)
    /\ \E run \in EndpointRuns(node, BuildAgentRequest(state)) :
          /\ outcome' = run.reply
          /\ handler_ops' = run.ops
          /\ LET o == AgentResponseOf(run.reply)
                 r == IF o.kind = "ok" THEN HttpOkResult(o)
                      ELSE HttpErrorResult(AgentName(node), o)
             IN  state' = [state EXCEPT !.response = r.response,
                                        !.sources = r.sources,
                                        !.confidence = r.confidence,
                                        !.context = <<>>]
    /\ trace' = Append(trace, IF node = "rag_knowledge"
                              THEN "rag_knowledge_agent" ELSE "web_search_agent")
    /\ net' = net + 1
    /\ pc' = "Dispatched"
    /\ UNCHANGED <<message, preference, llm, raised, confidence_level,
                   follow_up_questions, reply>>
    /\ UNCHANGED <<callerVars, otherVars, llm_messages>>

\* _rag_knowledge_agent
RagKnowledgeAgent == CallAgentViaHttp("rag_knowledge")

\* _web_search_agent
WebSearchAgent == CallAgentViaHttp("web_search")

\* "Current Time & Location:\n"
TimeHeader ==
    <<"C","u","r","r","e","n","t"," ","T","i","m","e"," ","&"," ",
      "L","o","c","a","t","i","o","n",":","\n">>

\* what the geolocation lookup adds to the response: nothing when it is not
\* made or fails, else a line with the detailed location
GeoLines(prompt) ==
    IF TimeCalls(prompt) = 1 THEN {<<>>}
    ELSE {<<>>, <<"\n","-"," ","D","e","t","a","i","l","e","d"," ",
                  "L","o","c","a","t","i","o","n",":"," ","P","a","r","i","s">>}

TimeLocationAgentScoresFallback ==
    /\ pc = "Planned"
    /\ RoutePlan(state) = "time_location"
    /\ decision' = <<>>
    /\ \E o \in TimeOutcomes, geo \in GeoLines(state.prompt) :
          /\ outcome' = o
          /\ state' = [state EXCEPT
                !.response = TimeHeader \o <<"-", " ", "T", "i", "m", "e", ":", " ">>
                                \o o.text \o geo,
                !.context = <<>>, !.sources = <<>>,
                !.confidence = IF o.kind = "time_local" THEN ErrorConfidence
                               ELSE state.confidence]
    /\ trace' = Append(trace, "time_location_agent")
    /\ net' = net + TimeCalls(state.prompt)
    /\ pc' = "Dispatched"
    /\ UNCHANGED <<message, preference, llm, raised, confidence_level,
                   follow_up_questions, reply>>
    /\ UNCHANGED <<callerVars, otherVars, agent_request, llm_messages,
                   handler_ops, agent_client>>

\* _time_location_agent: every upstream failure is caught; response,
\* context and sources are set, confidence is left as it was
TimeLocationAgent ==
    /\ pc = "Planned"
    /\ RoutePlan(state) = "time_location"
    /\ decision' = <<>>
    /\ \E o \in TimeOutcomes, geo \in GeoLines(state.prompt) :
          /\ outcome' = o
          /\ state' = [state EXCEPT
                !.response = TimeHeader \o <<"-", " ", "T", "i", "m", "e", ":", " ">>
                                \o o.text \o geo,
                !.context = <<>>, !.sources = <<>>]
    /\ trace' = Append(trace, "time_location_agent")
    /\ net' = net + TimeCalls(state.prompt)
    /\ pc' = "Dispatched"
    /\ UNCHANGED <<message, preference, llm, raised, confidence_level,
                   follow_up_questions, reply>>
    /\ UNCHANGED <<callerVars, otherVars, agent_request, llm_messages,
                   handler_ops, agent_client>>

ScoreShortBelowTwo ==
    /\ pc = "Dispatched"
    /\ confidence_level' =
          IF WordCount(Strip(message)) < ShortPromptWords THEN "low"
          ELSE ComputeConfidenceLevel(state.confidence)
    /\ trace' = Append(trace, "score")
    /\ pc' = "Scored"
    /\ UNCHANGED <<message, preference, state, llm, decision, outcome, raised,
                   follow_up_questions, reply, net>>
    /\ UNCHANGED <<callerVars, otherVars, agent_request, llm_messages,
                   handler_ops, agent_client>>

ScoreRetriesFailedDispatch ==
    /\ pc = "Dispatched"
    /\ confidence_level' =
          IF WordCount(Strip(message)) <= ShortPromptWords THEN "low"
          ELSE ComputeConfidenceLevel(state.confidence)
    /\ trace' = Append(trace, "score")
    /\ pc' = IF state.confidence = ErrorConfidence /\ Len(trace) < 4
             THEN "Planned" ELSE "Scored"
    /\ UNCHANGED <<message, preference, state, llm, decision, outcome, raised,
                   follow_up_questions, reply, net>>
    /\ UNCHANGED <<callerVars, otherVars, agent_request, llm_messages,
                   handler_ops, agent_client>>

\* run_chat after graph.ainvoke: band the score, force "low" for a message
\* of at most two words
Score ==
    /\ pc = "Dispatched"
    /\ confidence_level' =
          IF WordCount(Strip(message)) <= ShortPromptWords THEN "low"
          ELSE ComputeConfidenceLevel(state.confidence)
    /\ trace' = Append(trace, "score")
    /\ pc' = "Scored"
    /\ UNCHANGED <<message, preference, state, llm, decision, outcome, raised,
                   follow_up_questions, reply, net>>
    /\ UNCHANGED <<callerVars, otherVars, agent_request, llm_messages,
                   handler_ops, agent_client>>

WantsFollowUpUnlessHigh == state.confidence # NoScore /\ confidence_level # "high"

\* run_chat: the follow-up call is made iff a score exists and the band is low
WantsFollowUp == state.confidence # NoScore /\ confidence_level = "low"

\* _build_follow_up_questions: [] without an LLM, [] when invoke or the
\* parsing raises, else the parsed reply; then the ChatResponse is returned.
\* get_llm() is called before the try: when it raises, the exception
\* reaches chat_endpoint, which answers 500
FollowUp ==
    /\ pc = "Scored"
    /\ WantsFollowUp
    /\ trace' = Append(trace, "follow_up")
    /\ \/ /\ llm' = "unavailable"
          /\ net' = net + ProbeCalls(preference)
          /\ follow_up_questions' = <<>>
          /\ pc' = "Done"
          /\ UNCHANGED <<reply, raised, llm_messages>>
       \/ /\ llm' = "raised"
          /\ net' = net + ProbeCalls(preference) + 1
          /\ llm_messages' = FollowUpMessages(state)
          /\ follow_up_questions' = <<>>
          /\ pc' = "Done"
          /\ UNCHANGED <<reply, raised>>
       \/ /\ llm' = "replied"
          /\ net' = net + ProbeCalls(preference) + 1
          /\ llm_messages' = FollowUpMessages(state)
          /\ \E text \in FollowUpReplies :
                /\ reply' = text
                /\ follow_up_questions' = ParseQuestions(text)
          /\ pc' = "Done"
          /\ UNCHANGED raised
       \/ /\ llm' = "build_raised"
          /\ net' = net + ProbeCalls(preference)
          /\ raised' = "follow_up"
          /\ pc' = "Error500"
          /\ UNCHANGED <<reply, follow_up_questions, llm_messages>>
    /\ UNCHANGED <<message, preference, state, decision, outcome, confidence_level>>
    /\ UNCHANGED <<callerVars, otherVars, agent_request, handler_ops,
                   agent_client>>

\* run_chat: no follow-up call, the ChatResponse is returned
Finish ==
    /\ pc = "Scored"
    /\ ~WantsFollowUp
    /\ pc' = "Done"
    /\ UNCHANGED <<message, preference, state, llm, decision, outcome, raised,
                   confidence_level, follow_up_questions, reply, trace, net>>
    /\ UNCHANGED <<callerVars, otherVars, agent_request, llm_messages,
                   handler_ops, agent_client>>

Next ==
    \/ Reject
    \/ PlanNoLlm
    \/ PlanClassified
    \/ PlanRaises
    \/ DirectAgent
    \/ RagKnowledgeAgent
    \/ WebSearchAgent
    \/ TimeLocationAgent
    \/ Score
    \/ FollowUp
    \/ Finish

Spec == Init /\ [][Next]_vars

(***************************************************************************)
(* The band function on its own, over every score in hundredths and the    *)
(* absent score.                                                           *)
(***************************************************************************)
\* the scores _compute_confidence_level is applied to
Scores == {NoScore} \cup (0..100)

BandInit ==
    /\ pc = "Band"
    /\ message = <<>>
    /\ preference = "gemini"
    /\ \E s \in Scores : state = [EmptyState EXCEPT !.confidence = s]
    /\ llm = "none"
    /\ decision = <<>>
    /\ outcome = NoOutcome
    /\ raised = "none"
    /\ confidence_level = None
    /\ follow_up_questions = <<>>
    /\ reply = <<>>
    /\ trace = <<>>
    /\ net = 0
    /\ history = <<>>
    /\ metadata = [is_null |-> TRUE,
                   lastSources |-> [tag |-> "absent", items |-> <<>>]]
    /\ agent_request = NoRequest
    /\ llm_messages = <<>>
    /\ handler_ops = <<>>
    /\ retrieved = <<>>
    /\ custom_kpis = NoKpis
    /\ kpi_calls = <<>>
    /\ turns = <<>>
    /\ agent_client = NoClient

\* confidence_level = _compute_confidence_level(confidence)
BandApply ==
    /\ pc = "Band"
    /\ confidence_level' = ComputeConfidenceLevel(state.confidence)
    /\ pc' = "Banded"
    /\ UNCHANGED <<message, preference, state, llm, decision, outcome, raised,
                   follow_up_questions, reply, trace, net>>
    /\ UNCHANGED <<callerVars, otherVars, agent_request, llm_messages,
                   handler_ops, agent_client>>

BandNext == BandApply

BandSpec == BandInit /\ [][BandNext]_vars

(***************************************************************************)
(* The document-search handler on its own (agents/rag_knowledge.py): one   *)
(* request, the documents the vector store returns for it and the files it *)
(* lists, and the LLM's behaviour.                                         *)
(***************************************************************************)
\* list_intent_phrases of execute_agent
ListIntentPhrases ==
    << <<"w","h","a","t"," ","p","d","f","s"," ","d","o"," ","w","e"," ",
         "h","a","v","e">>,
       <<"w","h","a","t"," ","p","d","f"," ","d","o"," ","w","e"," ","h",
         "a","v","e">>,
       <<"w","h","a","t"," ","d","o","c","u","m","e","n","t","s"," ","d",
         "o"," ","w","e"," ","h","a","v","e">>,
       <<"w","h","a","t"," ","d","o","c","s"," ","d","o"," ","w","e"," ",
         "h","a","v","e">>,
       <<"w","h","a","t"," ","f","i","l","e","s"," ","d","o"," ","w","e",
         " ","h","a","v","e">>,
       <<"w","h","i","c","h"," ","d","o","c","u","m","e","n","t","s"," ",
         "h","a","v","e"," ","i"," ","u","p","l","o","a","d","e","d">>,
       <<"w","h","i","c","h"," ","f","i","l","e","s"," ","h","a","v","e",
         " ","i"," ","u","p","l","o","a","d","e","d">>,
       <<"l","i","s","t"," ","m","y"," ","d","o","c","u","m","e","n","t",
         "s">>,
       <<"l","i","s","t"," ","m","y"," ","f","i","l","e","s">> >>

\* the answer of the listing branch when nothing is indexed (its typographic
\* apostrophes written as ')
NoIndexedDocumentsText ==
    <<"I"," ","d","o","n","'","t"," ","s","e","e"," ","a","n","y"," ","i",
      "n","d","e","x","e","d"," ","d","o","c","u","m","e","n","t","s"," ",
      "y","e","t",".","\n","\n","Y","o","u"," ","c","a","n"," ","u","p",
      "l","o","a","d"," ","P","D","F","s"," ","a","n","d"," ","o","t","h",
      "e","r"," ","f","i","l","e","s"," ","f","r","o","m"," ","t","h","e",
      " ","U","p","l","o","a","d","s"," ","p","a","g","e",","," ","a","n",
      "d"," ","I","'","l","l"," ","u","s","e"," ","t","h","e","m"," ","f",
      "o","r"," ","a","n","s","w","e","r","s",".">>

\* lines[0] of the listing
ListingHeader ==
    <<"H","e","r","e"," ","a","r","e"," ","t","h","e"," ","d","o","c","u",
      "m","e","n","t","s"," ","I"," ","c","u","r","r","e","n","t","l","y",
      " ","h","a","v","e"," ","i","n","d","e","x","e","d",":","\n">>

\* the answer of _invoke_llm when get_llm() is None and there is context
LlmUnavailableWithContext(prompt, context) ==
    <<"(","L","L","M"," ","u","n","a","v","a","i","l","a","b","l","e",")",
      " ","C","o","n","t","e","x","t"," ","s","n","i","p","p","e","t","s",
      ":","\n">>
    \o context
    \o <<"\n","\n","U","s","e","r"," ","p","r","o","m","p","t",":"," ">>
    \o prompt

\* the separator of the context snippets
SnippetSeparator == <<"\n","\n","-","-","-","\n","\n">>

\* the answer of the handler's except branch
RagErrorText(e) ==
    <<"I"," ","e","n","c","o","u","n","t","e","r","e","d"," ","a","n"," ",
      "e","r","r","o","r"," ","w","h","i","l","e"," ","s","e","a","r","c",
      "h","i","n","g"," ","d","o","c","u","m","e","n","t","s",":"," ">>
    \o e
    \o <<"."," ","P","l","e","a","s","e"," ","t","r","y"," ","a","g","a",
         "i","n"," ","o","r"," ","r","e","p","h","r","a","s","e"," ","y",
         "o","u","r"," ","q","u","e","s","t","i","o","n",".">>

EmptyIndexConfidence == 90   \* confidence=0.9 of the empty listing
ListConfidence == 95         \* confidence=0.95 of the listing
NoDocsConfidence == 30       \* confidence=0.3 when no snippet is usable
RagErrorConfidence == 10     \* confidence=0.1 of the except branch
FullSimilarity == 100        \* the 1.0 that similarity and confidence are capped at
SimilarityWeight == 70       \* avg_similarity * 0.7
DocCountWeight == 30         \* doc_count_factor * 0.3
DocCountSaturation == 3      \* len(snippets) / 3.0

\* doc.metadata.get("filename") or "Uploaded document"; a document without
\* a filename has filename ""
Filename(doc) ==
    IF doc.filename = "" THEN "Uploaded document" ELSE doc.filename

\* the requests the handler is given
RagPrompts ==
    { <<"W","h","a","t"," ","d","o","e","s"," ","i","t"," ","s","a","y">>,
      <<"L","i","s","t"," ","m","y"," ","f","i","l","e","s">> }
PreferredLists ==
    { <<>>, <<"a.pdf">>, <<"c.pdf">>, <<"b.pdf", "Uploaded document">> }
RagRequests ==
    [prompt : RagPrompts, history : {<<>>}, context : {<<>>},
     metadata : [preferred_sources : PreferredLists]]

\* what search_with_scores returns: at most MaxDocs documents, each with a
\* filename (or none), a content and a distance
Docs ==
    [filename : {"a.pdf", "b.pdf", ""},
     page_content : { <<" ", "x", " ">>, <<" ">> },
     score : {-40, 150}]
DocLists == UNION { [1..n -> Docs] : n \in 0..MaxDocs }

\* what list_files returns: distinct filenames, sorted, with chunk counts
IndexedFiles ==
    { <<>>,
      <<[filename |-> "a.pdf", chunks |-> 2], [filename |-> "Unknown", chunks |-> 1]>> }

\* what get_llm() and llm.invoke do within _invoke_llm
RagLlmOutcomes ==
    { [kind |-> "unavailable", text |-> <<>>],
      [kind |-> "replied", text |-> <<"S","e","e"," ","a",".","p","d",
                                      "f">>],
      [kind |-> "raised", text |-> <<"L","L","M"," ","c","a","l","l"," ",
                                     "f","a","i","l","e","d">>] }

\* any(phrase in lower for phrase in list_intent_phrases)
IsListIntent(prompt) == ContainsAny(Lower(Strip(prompt)), ListIntentPhrases)

\* item.get("filename") or "Unknown"
ItemName(item) == IF item.filename = "" THEN "Unknown" ELSE item.filename

\* f"- {filename} (about {chunks} chunks)"; a filename is one token of the text
ListingLine(item) ==
    <<"-", " ", ItemName(item)>> \o <<" ","(","a","b","o","u","t"," ">>
    \o <<Digits[item.chunks]>> \o <<" ","c","h","u","n","k","s",")">>

\* sep.join(parts)
RECURSIVE Join(_, _)
Join(parts, sep) ==
    IF parts = <<>> THEN <<>>
    ELSE IF Len(parts) = 1 THEN parts[1]
    ELSE parts[1] \o sep \o Join(Tail(parts), sep)

\* sum(scores)
RECURSIVE Sum(_)
Sum(xs) == IF xs = <<>> THEN 0 ELSE xs[1] + Sum(Tail(xs))

\* {str(name) for name in preferred}
PreferredSet(request) ==
    {request.metadata.preferred_sources[i] :
        i \in DOMAIN request.metadata.preferred_sources}

\* the documents the loop runs over when the filter is never applied
DocsUnfiltered(docs, preferred_sources) == docs

\* the documents the loop runs over: those of a preferred file, when there
\* are preferred files and at least one retrieved document is of one
DocsToUse(docs, preferred_sources) ==
    LET OfPreferred(doc) == Filename(doc) \in preferred_sources
        filtered == SelectSeq(docs, OfPreferred)
    IN  IF preferred_sources # {} /\ filtered # <<>> THEN filtered ELSE docs

\* max(0.0, min(1.0, 1.0 - abs(score))), in hundredths
Similarity(score) ==
    LET distance == IF score < 0 THEN -score ELSE score
        raw == FullSimilarity - distance
    IN  IF raw < 0 THEN 0 ELSE IF raw > FullSimilarity THEN FullSimilarity ELSE raw

\* min(1.0, avg_similarity * 0.7 + doc_count_factor * 0.3), in hundredths,
\* rounded down
RagConfidence(scores) ==
    LET n == Len(scores)
        averaged == (SimilarityWeight * Sum(scores)) \div (FullSimilarity * n)
        counted == IF n >= DocCountSaturation THEN DocCountWeight
                   ELSE (DocCountWeight * n) \div DocCountSaturation
    IN  IF averaged + counted > FullSimilarity THEN FullSimilarity
        ELSE averaged + counted

\* _invoke_llm(prompt, history, context) of the handler
RagInvokeLlm(prompt, context, l) ==
    IF l.kind = "unavailable"
    THEN [raised |-> FALSE,
          text |-> IF context # <<>> THEN LlmUnavailableWithContext(prompt, context)
                   ELSE LlmUnavailableText]
    ELSE IF l.kind = "replied" THEN [raised |-> FALSE, text |-> l.text]
    ELSE [raised |-> TRUE, text |-> l.text]

\* the AgentResponse of the except branch
RagErrorResponse(e) ==
    [kind |-> "ok", text |-> RagErrorText(e), sources |-> <<>>,
     confidence |-> RagErrorConfidence]

\* execute_agent of the document-search handler
RagExecuteAgent(request, docs, indexed, l) ==
    IF IsListIntent(request.prompt)
    THEN IF indexed = <<>>
         THEN [kind |-> "ok", text |-> NoIndexedDocumentsText, sources |-> <<>>,
               confidence |-> EmptyIndexConfidence]
         ELSE [kind |-> "ok",
               text |-> Join(<<ListingHeader>>
                             \o [i \in DOMAIN indexed |-> ListingLine(indexed[i])],
                             <<"\n">>),
               sources |-> [i \in DOMAIN indexed |-> ItemName(indexed[i])],
               confidence |-> ListConfidence]
    ELSE LET HasContent(doc) == Strip(doc.page_content) # <<>>
             used == SelectSeq(DocsToUse(docs, PreferredSet(request)), HasContent)
             snippets == [i \in DOMAIN used |-> Strip(used[i].page_content)]
             sources == [i \in DOMAIN used |-> Filename(used[i])]
             scores == [i \in DOMAIN used |-> Similarity(used[i].score)]
             result == RagInvokeLlm(request.prompt,
                                    Join(snippets, SnippetSeparator), l)
         IN  IF result.raised THEN RagErrorResponse(result.text)
             ELSE IF snippets = <<>>
             THEN [kind |-> "ok", text |-> result.text, sources |-> <<>>,
                   confidence |-> NoDocsConfidence]
             ELSE [kind |-> "ok", text |-> result.text,
                   sources |-> FirstSeen(sources),
                   confidence |-> RagConfidence(scores)]

\* the collaborators execute_agent calls, in order
RagOps(request) ==
    IF IsListIntent(request.prompt) THEN <<"list_files">>
    ELSE <<"search_with_scores", "invoke_llm">>

RagInit ==
    /\ pc = "Handler"
    /\ agent_request \in RagRequests
    /\ retrieved \in DocLists
    /\ message = <<>>
    /\ preference = "gemini"
    /\ state = EmptyState
    /\ llm = "none"
    /\ decision = <<>>
    /\ outcome = NoOutcome
    /\ raised = "none"
    /\ confidence_level = None
    /\ follow_up_questions = <<>>
    /\ reply = <<>>
    /\ trace = <<>>
    /\ net = 0
    /\ history = <<>>
    /\ metadata = [is_null |-> TRUE,
                   lastSources |-> [tag |-> "absent", items |-> <<>>]]
    /\ llm_messages = <<>>
    /\ handler_ops = <<>>
    /\ custom_kpis = NoKpis
    /\ kpi_calls = <<>>
    /\ turns = <<>>
    /\ agent_client = NoClient

\* POST /api/agents/rag-knowledge
RagExecute ==
    /\ pc = "Handler"
    /\ \E indexed \in IndexedFiles, l \in RagLlmOutcomes :
         /\ outcome' = RagExecuteAgent(agent_request, retrieved, indexed, l)
         /\ llm' = IF IsListIntent(agent_request.prompt) THEN llm ELSE l.kind
    /\ handler_ops' = RagOps(agent_request)
    /\ pc' = "Replied"
    /\ UNCHANGED <<message, preference, state, decision, raised,
                   confidence_level, follow_up_questions, reply, trace, net>>
    /\ UNCHANGED <<callerVars, otherVars, agent_request, llm_messages,
                   agent_client>>

RagNext == RagExecute

RagSpec == RagInit /\ [][RagNext]_vars

(***************************************************************************)
(* The KPI store on its own (routers/kpi.py): calls of its three handlers  *)
(* in any order, over whatever the indexed logs hold at each call.         *)
(***************************************************************************)
MinSamples == 5      \* len(values) >= 5 of calc_threshold
Percentile == 95     \* int(len(sorted_vals) * 0.95)

\* KPIConfig(): the defaults of the schema
KPIConfig ==
    [cpu |-> [threshold |-> 80, unit |-> "%", detected |-> FALSE],
     memory |-> [threshold |-> 85, unit |-> "%", detected |-> FALSE],
     network |-> [threshold |-> 500, unit |-> "ms", detected |-> FALSE],
     database |-> [threshold |-> 1000, unit |-> "ms", detected |-> FALSE],
     disk_io |-> [threshold |-> 20, unit |-> "%", detected |-> FALSE]]

\* kpis of _detect_kpis_from_logs before any value is read
DetectionStart ==
    [cpu |-> [threshold |-> 80, unit |-> "%", detected |-> FALSE],
     memory |-> [threshold |-> 85, unit |-> "%", detected |-> FALSE],
     network |-> [threshold |-> 500, unit |-> "ms", detected |-> FALSE],
     database |-> [threshold |-> 1000, unit |-> "ms", detected |-> FALSE],
     disk_io |-> [threshold |-> 20, unit |-> "%", detected |-> FALSE]]

\* the configurations a caller posts: thresholds of its own, and one equal
\* to the defaults
PostedConfigs ==
    { [KPIConfig EXCEPT !.cpu.threshold = 50, !.database.threshold = 250],
      KPIConfig }

\* what the search of the indexed logs gives get_kpis: an exception, no
\* snippet, or snippets from which the patterns extract these values per
\* metric (database values already in milliseconds)
IndexedLogs ==
    { [kind |-> "raises", cpu |-> <<>>, database |-> <<>>],
      [kind |-> "empty", cpu |-> <<>>, database |-> <<>>] }
    \cup [kind : {"snippets"},
          cpu : { <<>>, <<70, 75>>, <<50, 95, 60, 70, 65>> },
          database : { <<>>, <<300, 900, 1200, 700, 2000, 400>> }]

\* sorted(values)[idx], idx counted from 0
SortedAt(values, idx) ==
    CHOOSE v \in {values[i] : i \in DOMAIN values} :
        /\ Cardinality({i \in DOMAIN values : values[i] < v}) <= idx
        /\ Cardinality({i \in DOMAIN values : values[i] <= v}) > idx

\* calc_threshold applied to a non-empty list of values, then stored
CalcThreshold(entry, values) ==
    IF values = <<>> THEN entry
    ELSE IF Len(values) >= MinSamples
    THEN [entry EXCEPT
            !.threshold = SortedAt(values, (Len(values) * Percentile) \div 100),
            !.detected = TRUE]
    ELSE [entry EXCEPT !.detected = FALSE]

\* _detect_kpis_from_logs(snippets, {}) turned into a KPIConfig
DetectKpisFromLogs(logs) ==
    [DetectionStart EXCEPT
        !.cpu = CalcThreshold(DetectionStart.cpu, logs.cpu),
        !.database = CalcThreshold(DetectionStart.database, logs.database)]

\* what get_kpis returns when the logs are consulted before the store
GetKpisLogsFirst(custom, logs) ==
    IF logs.kind = "snippets" THEN DetectKpisFromLogs(logs)
    ELSE IF ~custom.is_none THEN custom.config
    ELSE KPIConfig

\* what get_kpis returns
GetKpisResult(custom, logs) ==
    IF ~custom.is_none THEN custom.config
    ELSE IF logs.kind = "snippets" THEN DetectKpisFromLogs(logs)
    ELSE KPIConfig

KpiInit ==
    /\ pc = "Kpi"
    /\ custom_kpis = NoKpis
    /\ kpi_calls = <<>>
    /\ message = <<>>
    /\ preference = "gemini"
    /\ state = EmptyState
    /\ llm = "none"
    /\ decision = <<>>
    /\ outcome = NoOutcome
    /\ raised = "none"
    /\ confidence_level = None
    /\ follow_up_questions = <<>>
    /\ reply = <<>>
    /\ trace = <<>>
    /\ net = 0
    /\ history = <<>>
    /\ metadata = [is_null |-> TRUE,
                   lastSources |-> [tag |-> "absent", items |-> <<>>]]
    /\ agent_request = NoRequest
    /\ llm_messages = <<>>
    /\ handler_ops = <<>>
    /\ retrieved = <<>>
    /\ turns = <<>>
    /\ agent_client = NoClient

\* what a call of the KPI router leaves alone
kpiUnchanged ==
    <<pc, message, preference, state, llm, decision, outcome, raised,
      confidence_level, follow_up_questions, reply, trace, net, history,
      metadata, agent_request, llm_messages, handler_ops, retrieved, turns,
      agent_client>>

\* POST /api/kpis
UpdateKpis ==
    /\ pc = "Kpi"
    /\ Len(kpi_calls) < MaxCalls
    /\ \E kpi_config \in PostedConfigs :
         /\ custom_kpis' = [is_none |-> FALSE, config |-> kpi_config]
         /\ kpi_calls' = Append(kpi_calls,
                [op |-> "update_kpis", config |-> custom_kpis'.config])
    /\ UNCHANGED kpiUnchanged

\* GET /api/kpis
GetKpis ==
    /\ pc = "Kpi"
    /\ Len(kpi_calls) < MaxCalls
    /\ \E logs \in IndexedLogs :
         kpi_calls' = Append(kpi_calls,
                [op |-> "get_kpis", config |-> GetKpisResult(custom_kpis, logs)])
    /\ UNCHANGED custom_kpis
    /\ UNCHANGED kpiUnchanged

\* GET /api/kpis/explain
ExplainKpis ==
    /\ pc = "Kpi"
    /\ Len(kpi_calls) < MaxCalls
    /\ \E logs \in IndexedLogs :
         kpi_calls' = Append(kpi_calls,
                [op |-> "explain_kpis",
                 config |-> GetKpisResult(custom_kpis, logs)])
    /\ UNCHANGED custom_kpis
    /\ UNCHANGED kpiUnchanged

KpiNext ==
    \/ UpdateKpis
    \/ GetKpis
    \/ ExplainKpis

KpiSpec == KpiInit /\ [][KpiNext]_vars

(***************************************************************************)
(* Turns served concurrently by the one orchestrator (routers/chat.py):    *)
(* each turn is a coroutine that other turns run between whenever it is    *)
(* between two graph nodes or awaits the reply of an agent endpoint.       *)
(***************************************************************************)
Turns == 1..MaxTurns

\* the messages of the concurrent callers
ConcMessages ==
    { <<" ">>,
      <<"h","i">>,
      <<"h","e","l","l","o"," ","t","o"," ","y","o","u">>,
      <<"w","h","a","t"," ","t","i","m","e"," ","i","s"," ","i","t">> }

\* what the LLM does for the planner, for _direct_agent and for the
\* follow-up generator
ConcClassifier ==
    { [kind |-> "unavailable", text |-> <<>>, sources |-> <<>>, confidence |-> 0],
      [kind |-> "replied",
       text |-> <<"r","a","g","_","k","n","o","w","l","e","d","g","e">>,
       sources |-> <<>>, confidence |-> 0],
      [kind |-> "raised", text |-> <<>>, sources |-> <<>>, confidence |-> 0] }
ConcAnswers ==
    { [kind |-> "unavailable", text |-> <<>>, sources |-> <<>>, confidence |-> 0],
      [kind |-> "replied", text |-> <<"H","e","l","l","o","!">>,
       sources |-> <<>>, confidence |-> 0],
      [kind |-> "raised", text |-> <<>>, sources |-> <<>>, confidence |-> 0] }
ConcFollowUps ==
    { [kind |-> "unavailable", text |-> <<>>, sources |-> <<>>, confidence |-> 0],
      [kind |-> "replied", text |-> <<"A","?","\r","\n","B","?">>,
       sources |-> <<>>, confidence |-> 0],
      [kind |-> "raised", text |-> <<>>, sources |-> <<>>, confidence |-> 0],
      [kind |-> "build_raised", text |-> <<>>, sources |-> <<>>,
       confidence |-> 0] }

\* what the agent endpoint answers a turn's request with
ConcAgentOutcomes ==
    { [kind |-> "ok", text |-> <<"F","o","u","n","d">>,
       sources |-> <<"a.pdf", "b.pdf", "a.pdf">>, confidence |-> 90],
      [kind |-> "ok", text |-> <<"N","o","n","e">>, sources |-> <<>>,
       confidence |-> 0],
      [kind |-> "timeout", text |-> <<"t","i","m","e","d"," ","o","u","t">>,
       sources |-> <<>>, confidence |-> 0] }

\* the collaborator responses a turn has been given so far
NoGiven ==
    [classifier |-> NoOutcome, agent |-> NoOutcome, follow_up |-> NoOutcome]

\* the ChatResponse of a turn: none yet, the 400 of a blank message, the
\* 500 of an escaped exception, or the fields run_chat returns
NoResult ==
    [status |-> "none", response |-> <<>>, sources |-> <<>>,
     confidence |-> NoScore, confidence_level |-> None,
     follow_up_questions |-> <<>>]
Answered(status) == [NoResult EXCEPT !.status = status]

\* a turn that chat_endpoint has not started on
NewTurn(msg) ==
    [pc |-> "Start", message |-> msg, state |-> EmptyState,
     request |-> NoRequest, given |-> NoGiven, result |-> NoResult,
     overlapped |-> FALSE]

\* _plan on a state, given what the LLM does
PlanOf(st, c) ==
    IF c.kind = "unavailable" THEN [st EXCEPT !.plan = "direct"]
    ELSE [st EXCEPT !.plan = PlanToken(st.prompt, Decision(c.text))]

\* _direct_agent or _time_location_agent on a state, given what the LLM or
\* the time service does
LocalAgentOf(st, a) ==
    IF RoutePlan(st) = "direct"
    THEN [st EXCEPT !.response = IF a.kind = "unavailable"
                                 THEN LlmUnavailableText ELSE a.text,
                    !.context = <<>>, !.sources = <<>>,
                    !.confidence = DefaultConfidence]
    ELSE [st EXCEPT !.response = TimeHeader
                                    \o <<"-", " ", "T", "i", "m", "e", ":", " ">>
                                    \o a.text,
                    !.context = <<>>, !.sources = <<>>]

\* _call_agent_via_http on a state after the await, given the endpoint's answer
HttpAgentOf(st, response) ==
    LET o == AgentResponseOf(response)
        r == IF o.kind = "ok" THEN HttpOkResult(o)
             ELSE HttpErrorResult(AgentName(RoutePlan(st)), o)
    IN  [st EXCEPT !.response = r.response, !.sources = r.sources,
                   !.confidence = r.confidence, !.context = <<>>]

\* the band run_chat gives the final state of a turn
LevelOf(msg, st) ==
    IF WordCount(Strip(msg)) <= ShortPromptWords THEN "low"
    ELSE ComputeConfidenceLevel(st.confidence)

\* run_chat makes the follow-up call for this final state
FollowUpWanted(msg, st) ==
    st.confidence # NoScore /\ LevelOf(msg, st) = "low"

\* run_chat after graph.ainvoke, given what the LLM does for the follow-up
ResultOf(msg, st, f) ==
    IF FollowUpWanted(msg, st) /\ f.kind = "build_raised"
    THEN Answered("error500")
    ELSE [status |-> "ok", response |-> st.response, sources |-> st.sources,
          confidence |-> st.confidence, confidence_level |-> LevelOf(msg, st),
          follow_up_questions |->
             IF FollowUpWanted(msg, st) /\ f.kind = "replied"
             THEN ParseQuestions(f.text) ELSE <<>>]

\* the state dict every turn works on when all turns share one
FrameShared(t) == 1

\* the state dict turn t works on: graph.ainvoke(self._initial_state(request))
\* is given a new one in every call of run_chat
FrameOf(t) == t

ConcInit ==
    /\ pc = "Serving"
    /\ turns \in [Turns -> {NewTurn(msg) : msg \in ConcMessages}]
    /\ agent_client = NoClient
    /\ message = <<>>
    /\ preference = "gemini"
    /\ state = EmptyState
    /\ llm = "none"
    /\ decision = <<>>
    /\ outcome = NoOutcome
    /\ raised = "none"
    /\ confidence_level = None
    /\ follow_up_questions = <<>>
    /\ reply = <<>>
    /\ trace = <<>>
    /\ net = 0
    /\ history = <<>>
    /\ metadata = [is_null |-> TRUE,
                   lastSources |-> [tag |-> "absent", items |-> <<>>]]
    /\ agent_request = NoRequest
    /\ llm_messages = <<>>
    /\ handler_ops = <<>>
    /\ retrieved = <<>>
    /\ custom_kpis = NoKpis
    /\ kpi_calls = <<>>

\* what a step of a concurrent turn leaves alone, the shared client apart
concUnchanged ==
    <<pc, message, preference, state, llm, decision, outcome, raised,
      confidence_level, follow_up_questions, reply, trace, net, history,
      metadata, agent_request, llm_messages, handler_ops, retrieved,
      custom_kpis, kpi_calls>>

\* chat_endpoint on a blank message: 400
ConcReject(t) ==
    /\ turns[t].pc = "Start"
    /\ Strip(turns[t].message) = <<>>
    /\ turns' = [turns EXCEPT ![t].pc = "Rejected",
                              ![t].result = Answered("rejected")]
    /\ UNCHANGED <<concUnchanged, agent_client>>

\* chat_endpoint -> run_chat: the initial state is built and handed to the graph
ConcBegin(t) ==
    /\ turns[t].pc = "Start"
    /\ Strip(turns[t].message) # <<>>
    /\ turns' = [turns EXCEPT ![t].pc = "Begun",
                              ![FrameOf(t)].state = InitialState(turns[t].message)]
    /\ UNCHANGED <<concUnchanged, agent_client>>

\* the plan node
ConcPlan(t) ==
    /\ turns[t].pc = "Begun"
    /\ \E c \in ConcClassifier :
         turns' = [turns EXCEPT
            ![t].given.classifier = c,
            ![t].pc = IF c.kind = "raised" THEN "Error500" ELSE "Planned",
            ![t].result = IF c.kind = "raised" THEN Answered("error500") ELSE @,
            ![FrameOf(t)].state = IF c.kind = "raised" THEN @ ELSE PlanOf(@, c)]
    /\ UNCHANGED <<concUnchanged, agent_client>>

\* the direct_agent or time_location_agent node
ConcLocalAgent(t) ==
    /\ turns[t].pc = "Planned"
    /\ RoutePlan(turns[FrameOf(t)].state) \in {"direct", "time_location"}
    /\ \E a \in IF RoutePlan(turns[FrameOf(t)].state) = "direct"
                THEN ConcAnswers ELSE TimeOutcomes :
         turns' = [turns EXCEPT
            ![t].given.agent = a,
            ![t].pc = IF a.kind = "raised" THEN "Error500" ELSE "Dispatched",
            ![t].result = IF a.kind = "raised" THEN Answered("error500") ELSE @,
            ![FrameOf(t)].state = IF a.kind = "raised" THEN @
                                  ELSE LocalAgentOf(@, a)]
    /\ UNCHANGED <<concUnchanged, agent_client>>

\* the rag_knowledge_agent or web_search_agent node up to the await of
\* client.call_agent: the shared client is fetched and the request built
ConcSend(t) ==
    /\ turns[t].pc = "Planned"
    /\ RoutePlan(turns[FrameOf(t)].state) \in {"rag_knowledge", "web_search"}
    /\ agent_client' = GetAgentClient(agent_client)
    /\ turns' = [turns EXCEPT
          ![t].pc = "Awaiting",
          ![t].request = BuildAgentRequest(turns[FrameOf(t)].state)]
    /\ UNCHANGED concUnchanged

\* the same node from the await on: the endpoint's answer is put in the state
ConcReceive(t) ==
    /\ turns[t].pc = "Awaiting"
    /\ \E reply_t \in ConcAgentOutcomes :
         turns' = [turns EXCEPT
            ![t].given.agent = reply_t,
            ![t].pc = "Dispatched",
            ![t].overlapped = \E u \in Turns : u # t /\ turns[u].pc = "Awaiting",
            ![FrameOf(t)].state = HttpAgentOf(@, reply_t)]
    /\ UNCHANGED <<concUnchanged, agent_client>>

\* run_chat after graph.ainvoke: band, short-message override, follow-up
\* questions, ChatResponse
ConcFinish(t) ==
    /\ turns[t].pc = "Dispatched"
    /\ LET msg == turns[t].message
           final_state == turns[FrameOf(t)].state
       IN  \E f \in IF FollowUpWanted(msg, final_state)
                    THEN ConcFollowUps ELSE {NoOutcome} :
              turns' = [turns EXCEPT
                 ![t].given.follow_up = f,
                 ![t].result = ResultOf(msg, final_state, f),
                 ![t].pc = IF ResultOf(msg, final_state, f).status = "ok"
                           THEN "Done" ELSE "Error500"]
    /\ UNCHANGED <<concUnchanged, agent_client>>

ConcNext ==
    \E t \in Turns :
        \/ ConcReject(t)
        \/ ConcBegin(t)
        \/ ConcPlan(t)
        \/ ConcLocalAgent(t)
        \/ ConcSend(t)
        \/ ConcReceive(t)
        \/ ConcFinish(t)

ConcSpec == ConcInit /\ [][ConcNext]_vars

(***************************************************************************)
(* Properties.                                                             *)
(***************************************************************************)
\* the agent node has run to completion
AfterAgent == pc \in {"Dispatched", "Scored", "Done"}

\* the planner has returned and the agent node has not run yet
AfterPlan == pc = "Planned"

HasTimePhrase == ContainsAny(Lower(message), TimePhrases)
HasWebPhrase == ContainsAny(Lower(message), WebPhrases)

\* some keyword listed for `plan` occurs in `text`
Matches(plan, text) ==
    \E i \in DOMAIN agent_keywords :
        /\ agent_keywords[i].agent_type = plan
        /\ \E k \in DOMAIN agent_keywords[i].keywords :
              Contains(text, agent_keywords[i].keywords[k])

\* C1: executing the agent node never raises, whatever its collaborator
\* does, and leaves a response, a sources list and a confidence in the state.
C1_DispatchNeverRaises ==
    /\ raised # "agent"
    /\ AfterAgent => /\ state.confidence # NoScore
                     /\ state.response \in Seq(STRING)
                     /\ state.sources \in Seq(STRING)

\* C2: when the HTTP call to a handler fails, the dispatcher yields
\* confidence 0.0, no sources and a non-empty response that contains the
\* name of the failing handler.
C2_HttpFailureDegrades ==
    (AfterAgent /\ outcome \in AgentFailures) =>
        /\ state.confidence = 0
        /\ state.sources = <<>>
        /\ state.response # <<>>
        /\ state.plan = "rag_knowledge" =>
              Contains(state.response,
                       <<"r","a","g","-","k","n","o","w","l","e","d","g","e">>)
        /\ state.plan = "web_search" =>
              Contains(state.response, <<"w","e","b","-","s","e","a","r","c","h">>)

C2_Witness ==
    /\ pc = "Done"
    /\ outcome.kind = "malformed_json"
    /\ state.plan = "web_search"
    /\ state.confidence = 0

\* C3: a turn with a non-empty message never ends in an HTTP 500: every
\* classifier, handler and follow-up failure is degraded content.
C3_NoError500 == pc # "Error500"

\* C4: planning never raises: a failing classifier call is swallowed and the
\* planner still returns a Plan.
C4_PlanningNeverRaises == raised # "plan"

\* C5: whenever the prompt contains a temporal/spatial phrase (in any case)
\* and the available classifier has replied, whatever it replied, the plan
\* is time_location.
C5_TimeOverridesClassifier ==
    (AfterPlan /\ llm = "replied" /\ HasTimePhrase) =>
        state.plan = "time_location"

C5_Witness ==
    /\ AfterPlan
    /\ llm = "replied"
    /\ message = <<"W","h","a","t"," ","T","i","m","e"," ","I","s"," ","I","t">>
    /\ decision = <<"w","e","b","_","s","e","a","r","c","h">>
    /\ state.plan = "time_location"

\* C6: for the message "what time is it" the plan is time_location under
\* every classifier wiring, also with no classifier available, and the
\* turn's sources are empty.
C6_WhatTimeIsIt ==
    (message = <<"w","h","a","t"," ","t","i","m","e"," ","i","s"," ","i","t">>
     /\ pc \in {"Planned", "Dispatched", "Scored", "Done"}) =>
        /\ state.plan = "time_location"
        /\ AfterAgent => state.sources = <<>>

\* C7 as stated (the case where the classifier has replied): a prompt with
\* both a broad web-request phrase and a temporal/spatial phrase is planned
\* web_search.
C7_WebBeatsTime ==
    (AfterPlan /\ llm = "replied" /\ HasWebPhrase /\ HasTimePhrase) =>
        state.plan = "web_search"

\* C7 amended: the overrides are applied one after the other, the later one
\* winning: with a replying classifier, a prompt with both a broad
\* web-request phrase and a temporal/spatial phrase is planned time_location.
C7_TimeBeatsWeb ==
    (AfterPlan /\ llm = "replied" /\ HasWebPhrase /\ HasTimePhrase) =>
        state.plan = "time_location" /\ state.plan # "web_search"

C7_Witness ==
    /\ AfterPlan
    /\ llm = "replied"
    /\ Contains(message, <<"a","c","c","e","s","s"," ","t","h","e"," ",
                           "i","n","t","e","r","n","e","t">>)
    /\ Contains(message, <<"c","u","r","r","e","n","t"," ","t","i","m","e">>)
    /\ state.plan = "time_location"

\* C8: a prompt containing "search the web" or "access the internet" and no
\* temporal/spatial phrase is planned web_search whatever the classifier
\* does (other token, no token, unavailable).
C8_BroadWebRequest ==
    (/\ AfterPlan
     /\ \/ Contains(Lower(message), <<"s","e","a","r","c","h"," ","t","h","e"," ",
                                      "w","e","b">>)
        \/ Contains(Lower(message), <<"a","c","c","e","s","s"," ","t","h","e"," ",
                                      "i","n","t","e","r","n","e","t">>)
     /\ ~HasTimePhrase) =>
        state.plan = "web_search"

\* C9: with no override phrase in the prompt, and the classifier unavailable
\* or replying a text with no Plan keyword in it, the plan is direct.
C9_DefaultDirect ==
    (/\ AfterPlan
     /\ ~HasWebPhrase
     /\ ~HasTimePhrase
     /\ \/ llm = "unavailable"
        \/ llm = "replied" /\ \A i \in DOMAIN PLAN_TYPES :
                                  ~Matches(PLAN_TYPES[i], decision)) =>
        state.plan = "direct"

C9_Witness ==
    /\ AfterPlan
    /\ llm = "replied"
    /\ message = <<"h","i">>
    /\ decision = <<"i"," ","c","a","n","n","o","t">>
    /\ state.plan = "direct"

\* the first plan of `order` with a keyword in `text`, direct if there is none
FirstMatch(order, text) ==
    LET M == {i \in DOMAIN order : Matches(order[i], text)}
    IN  IF M = {} THEN "direct"
        ELSE order[CHOOSE i \in M : \A j \in M : i <= j]

\* the bare tokens of the Plan vocabulary
BareToken(plan) ==
    CASE plan = "direct" -> <<"d","i","r","e","c","t">>
      [] plan = "rag_knowledge" -> <<"r","a","g","_","k","n","o","w","l","e","d","g","e">>
      [] plan = "web_search" -> <<"w","e","b","_","s","e","a","r","c","h">>
      [] plan = "time_location" -> <<"t","i","m","e","_","l","o","c","a","t","i","o","n">>

\* C10 as stated: the classifier's reply is mapped to the first Plan, in the
\* declaration order direct, rag_knowledge, web_search, time_location, that
\* has a keyword in the lowercased reply.
C10_DeclarationOrder ==
    (AfterPlan /\ llm = "replied" /\ ~HasWebPhrase /\ ~HasTimePhrase) =>
        state.plan = FirstMatch(PLAN_TYPES, decision)

\* C10 amended: the classifier's reply is mapped to the first Plan, in the
\* order rag_knowledge, web_search, time_location, direct of the planner's
\* keyword table, that has a keyword in the lowercased reply; each bare
\* vocabulary token maps to its own Plan.
C10_KeywordTableOrder ==
    (AfterPlan /\ llm = "replied" /\ ~HasWebPhrase /\ ~HasTimePhrase) =>
        /\ state.plan = FirstMatch(<<"rag_knowledge", "web_search",
                                     "time_location", "direct">>, decision)
        /\ \A i \in DOMAIN PLAN_TYPES :
              decision = BareToken(PLAN_TYPES[i]) => state.plan = PLAN_TYPES[i]

C10_Witness ==
    /\ AfterPlan
    /\ llm = "replied"
    /\ message = <<"h","i">>
    /\ decision = <<"d","i","r","e","c","t",","," ","n","o"," ","w","e","b">>
    /\ state.plan = "web_search"

\* the follow-up generator has been called in this turn
FollowUpInvoked == \E i \in DOMAIN trace : trace[i] = "follow_up"

\* the agent nodes of the graph
AgentNodes ==
    {"direct_agent", "rag_knowledge_agent", "web_search_agent", "time_location_agent"}

\* how many steps of `steps` the turn has run
Runs(steps) == Cardinality({i \in DOMAIN trace : trace[i] \in steps})

\* C11: the band is low iff the score is below 0.70, medium iff it is in
\* [0.70, 0.90), high iff it is 0.90 or more, and absent iff the score is
\* absent; 0.70 is medium and 0.90 is high.
C11_Bands ==
    pc = "Banded" =>
        LET s == state.confidence
            present == s # NoScore
        IN  /\ confidence_level = "low" <=> (present /\ s < 70)
            /\ confidence_level = "medium" <=> (present /\ 70 <= s /\ s < 90)
            /\ confidence_level = "high" <=> (present /\ s >= 90)
            /\ confidence_level = None <=> ~present
            /\ s = 70 => confidence_level = "medium"
            /\ s = 90 => confidence_level = "high"

C11_Witness ==
    /\ pc = "Banded"
    /\ state.confidence = 70
    /\ confidence_level = "medium"

\* C12: a message of at most two whitespace-delimited words always ends
\* with confidence_level low, whatever the plan and the reported score.
C12_ShortPromptIsLow ==
    (pc \in {"Scored", "Done"} /\ WordCount(Strip(message)) <= 2) =>
        confidence_level = "low"

C12_Witness ==
    /\ pc = "Done"
    /\ message = <<"h","i"," ","h","i">>
    /\ state.plan = "rag_knowledge"
    /\ state.confidence = 100
    /\ confidence_level = "low"

\* C13: the follow-up generator is called iff the final band is low and a
\* score exists; otherwise no call is made and follow_up_questions is empty.
C13_FollowUpIffLow ==
    /\ FollowUpInvoked => (confidence_level = "low" /\ state.confidence # NoScore)
    /\ pc = "Done" =>
          /\ FollowUpInvoked <=>
                (confidence_level = "low" /\ state.confidence # NoScore)
          /\ confidence_level \in {"medium", "high"} =>
                (~FollowUpInvoked /\ follow_up_questions = <<>>)
          /\ state.confidence = NoScore =>
                (~FollowUpInvoked /\ follow_up_questions = <<>>)

C13_Witness ==
    /\ pc = "Done"
    /\ FollowUpInvoked
    /\ WordCount(Strip(message)) > 2
    /\ state.confidence = 69
    /\ follow_up_questions # <<>>

\* C14: follow-up generation never throws: when the classifier is
\* unavailable, cannot be obtained, or its call raises, the list is empty
\* and the turn completes.
C14_FollowUpNeverThrows ==
    /\ raised # "follow_up"
    /\ (pc = "Done" /\ FollowUpInvoked /\ llm # "replied") =>
          follow_up_questions = <<>>

\* the characters an entry must not start with according to C15
LeadingJunk == {"-", "*", " ", "\t", "\n", "\r"}

\* C15 as stated: at most 3 entries, none empty, none starting with a
\* bullet, a dash or whitespace.
C15_NoLeadingBullet ==
    (pc = "Done" /\ FollowUpInvoked /\ llm = "replied") =>
        /\ Len(follow_up_questions) <= 3
        /\ \A i \in DOMAIN follow_up_questions :
              /\ follow_up_questions[i] # <<>>
              /\ Head(follow_up_questions[i]) \notin LeadingJunk

\* C15 amended: the list is the first 3 non-empty lines of the reply after
\* removing spaces, hyphens and tabs from both ends of each line, in order:
\* at most 3 entries, none empty, none starting or ending with a space, a
\* hyphen or a tab; any other leading character, such as "*", is kept.
C15_TrimmedLines ==
    (pc = "Done" /\ FollowUpInvoked /\ llm = "replied") =>
        LET q == follow_up_questions
        IN  /\ Len(q) <= 3
            /\ \A i \in DOMAIN q :
                  /\ q[i] # <<>>
                  /\ Head(q[i]) \notin {" ", "-", "\t"}
                  /\ q[i][Len(q[i])] \notin {" ", "-", "\t"}
                  /\ \A k \in DOMAIN q[i] : q[i][k] \notin {"\n", "\r"}
                  /\ Contains(reply, q[i])
            /\ reply = <<"A","?","\n","-"," ","B","?","\n","\n"," ","\n",
                         "-","\t","C","?","\n","D","?">> =>
                  q = << <<"A","?">>, <<"B","?">>, <<"C","?">> >>
            /\ reply = <<"A","?","\r","\n","B","?">> =>
                  q = << <<"A","?">>, <<"B","?">> >>
            /\ reply = <<"\n"," ","-","\n">> => q = <<>>
            /\ reply = <<"*"," ","A","?"," ","-">> => q = << <<"*"," ","A","?">> >>
            /\ reply = <<>> => q = <<>>

C15_Witness ==
    /\ pc = "Done"
    /\ llm = "replied"
    /\ reply = <<"A","?","\n","-"," ","B","?","\n","\n"," ","\n",
                 "-","\t","C","?","\n","D","?">>
    /\ follow_up_questions = << <<"A","?">>, <<"B","?">>, <<"C","?">> >>

\* C16: the follow-up step, whether it succeeds, fails or is skipped, ends
\* the turn with the response, sources, confidence and confidence_level
\* that the scoring left.
C16_MainAnswerUnaffected ==
    [][pc = "Scored" =>
          /\ pc' = "Done"
          /\ state' = state
          /\ confidence_level' = confidence_level]_vars

\* C17: every turn chooses exactly one Plan, invokes exactly one handler,
\* the one bound to the plan, and calls the follow-up generator at most once.
C17_ExactlyOneHandler ==
    pc \in {"Done", "Error500"} =>
        /\ raised # "plan"
        /\ Runs({"plan"}) = 1
        /\ Runs(AgentNodes) = 1
        /\ \E i \in DOMAIN trace :
              /\ state.plan = "direct" => trace[i] = "direct_agent"
              /\ state.plan = "rag_knowledge" => trace[i] = "rag_knowledge_agent"
              /\ state.plan = "web_search" => trace[i] = "web_search_agent"
              /\ state.plan = "time_location" => trace[i] = "time_location_agent"
        /\ Runs({"follow_up"}) <= 1

\* C18: the steps of a turn run in the order planner, handler, confidence
\* evaluation, follow-up, each at most once: no step is re-run or retried.
C18_FixedOrder ==
    /\ Len(trace) <= 4
    /\ Len(trace) >= 1 => trace[1] = "plan"
    /\ Len(trace) >= 2 => trace[2] \in AgentNodes
    /\ Len(trace) >= 3 => trace[3] = "score"
    /\ Len(trace) >= 4 => trace[4] = "follow_up"

C18_Witness ==
    /\ pc = "Done"
    /\ trace = <<"plan", "web_search_agent", "score", "follow_up">>

\* C19 as stated: a turn issues at most three blocking network calls.
C19_AtMostThreeCalls == net <= 3

\* C19 amended: a turn issues at most six blocking network calls, one after
\* another: at most two per step (the Ollama probe of get_llm() and the LLM
\* call when planning, answering directly and generating follow-ups; the
\* time and the geolocation lookup of the time/location handler; one HTTP
\* dispatch for the other handlers), and at most four when the preference
\* is openai or gemini, which do not probe.
C19_AtMostSixCalls ==
    /\ net <= 6
    /\ preference \in {"openai", "gemini"} => net <= 4
    /\ net <= 2 * Len(trace)

C19_Witness ==
    /\ pc = "Done"
    /\ net = 6
    /\ state.plan = "time_location"

HttpDispatched == Runs({"rag_knowledge_agent", "web_search_agent"}) = 1

\* the score nearest to s inside [0.0, 1.0]
Clamp(s) == IF s < 0 THEN 0 ELSE IF s > 100 THEN 100 ELSE s

\* C21 as stated: the confidence the dispatcher yields is present and in
\* [0, 1], and a value the handler reports outside [0, 1] is clamped to the
\* nearest bound with the handler's text and sources kept.
C21_Clamped ==
    AfterAgent =>
        /\ state.confidence >= 0 /\ state.confidence <= 100
        /\ outcome.kind = "out_of_range" =>
              /\ state.confidence = Clamp(outcome.confidence)
              /\ state.response = outcome.text
              /\ state.sources = outcome.sources

\* C21 amended: the confidence the dispatcher yields, and the turn's, is
\* present and in [0, 1]; a reply without a confidence is given 0.8; a reply
\* whose confidence is outside [0, 1] is not clamped but rejected as a
\* whole: confidence 0.0, no sources, and an error string naming the handler
\* in place of the handler's text.
C21_RejectedNotClamped ==
    AfterAgent =>
        /\ state.confidence # NoScore
        /\ state.confidence >= 0 /\ state.confidence <= 100
        /\ outcome.kind = "unscored" =>
              /\ state.confidence = 80
              /\ state.response = outcome.text
              /\ state.sources = outcome.sources
        /\ outcome.kind = "out_of_range" =>
              /\ state.confidence = 0
              /\ state.sources = <<>>
              /\ state.response # outcome.text
              /\ Contains(state.response, ErrorMsg(AgentName(state.plan)))
              /\ Contains(state.response, ValidationErrorText)

C21_Witness ==
    /\ pc = "Done"
    /\ outcome.kind = "out_of_range"
    /\ outcome.confidence = 150
    /\ state.plan = "rag_knowledge"
    /\ state.confidence = 0
    /\ state.sources = <<>>

\* C22: the AgentRequest of a dispatched turn carries, as preferred sources,
\* the list the caller supplied under "lastSources" (the empty list when the
\* metadata or the key is absent or null), and its prompt and history are
\* the turn's message and history.
C22_RequestCarriesLastSources ==
    HttpDispatched =>
        /\ agent_request.prompt = message
        /\ agent_request.history = history
        /\ agent_request.metadata.preferred_sources =
              IF metadata.is_null \/ metadata.lastSources.tag # "list"
              THEN <<>> ELSE metadata.lastSources.items

C22_Witness ==
    /\ pc = "Done"
    /\ state.plan = "rag_knowledge"
    /\ Len(history) = MaxHistory
    /\ agent_request.history = history
    /\ agent_request.metadata.preferred_sources = <<"b.pdf", "a.pdf">>

\* C24: an empty or whitespace-only message is rejected with HTTP 400
\* before the turn begins: no planner, classifier, handler or follow-up
\* call is made for it.
C24_BlankRejected ==
    (\A i \in DOMAIN message : message[i] \in Whitespace) =>
        /\ pc \in {"Start", "Rejected"}
        /\ trace = <<>>
        /\ net = 0
        /\ llm = "none"
        /\ llm_messages = <<>>
        /\ agent_request = NoRequest
        /\ state = EmptyState
        /\ follow_up_questions = <<>>

C24_Witness ==
    /\ pc = "Rejected"
    /\ message = <<" ", " ", " ">>
    /\ trace = <<>>

\* the step that ran last made a classifier call (planning or follow-up)
ClassifierCalled ==
    /\ trace # <<>>
    /\ trace[Len(trace)] \in {"plan", "follow_up"}
    /\ llm \in {"replied", "raised"}

\* C25: each classifier call (planning, follow-up) is sent, after the
\* system instruction, the last 4 history messages at most, in their
\* original order, followed by the current prompt; earlier history
\* messages are not sent.
C25_LastFourThenPrompt ==
    ClassifierCalled =>
        LET sent == llm_messages
            n == Len(sent) - 2
            skipped == Len(history) - n
        IN  /\ n = (IF Len(history) < 4 THEN Len(history) ELSE 4)
            /\ sent[1].type = "system"
            /\ \A k \in 1..n : sent[1 + k].content = history[skipped + k].content
            /\ \A k \in 1..skipped : \A j \in DOMAIN sent :
                  sent[j].content # history[k].content
            /\ sent[Len(sent)].type = "human"
            /\ sent[Len(sent)].content =
                  <<"U","s","e","r"," ","q","u","e","r","y",":"," ">> \o message

C25_Witness ==
    /\ pc = "Done"
    /\ ClassifierCalled
    /\ trace[Len(trace)] = "follow_up"
    /\ Len(history) = 5
    /\ Len(llm_messages) = 6
    /\ llm_messages[2].content = history[2].content

\* C26: whenever the call to the selected handler times out, the turn
\* completes with an output whose response is an error string naming the
\* handler, confidence 0.0 and confidence_level low, the follow-up
\* generator having been invoked exactly once.
C26_TimeoutChain ==
    (outcome.kind = "timeout" /\ pc \in {"Done", "Error500"}) =>
        /\ pc = "Done"
        /\ Contains(state.response, AgentName(state.plan))
        /\ state.confidence = 0
        /\ confidence_level = "low"
        /\ Runs({"follow_up"}) = 1

\* the web-search endpoint has been called for a generic request
GenericWebTurn ==
    /\ Runs({"web_search_agent"}) = 1
    /\ state.plan = "web_search"
    /\ ContainsAny(Lower(message), GenericPhrases)

C28_TimeLocationMedium ==
    Runs({"time_location_agent"}) = 1 =>
        /\ state.plan = "time_location"
        /\ raised # "agent"
        /\ state.confidence = 80
        /\ (pc \in {"Scored", "Done"} \/ raised = "follow_up") =>
              confidence_level =
                  IF WordCount(Strip(message)) <= 2 THEN "low" ELSE "medium"
        /\ WordCount(Strip(message)) > 2 =>
              /\ ~FollowUpInvoked
              /\ follow_up_questions = <<>>
              /\ pc # "Error500"

C28_Witness ==
    /\ pc = "Done"
    /\ message = <<"w","h","a","t"," ","t","i","m","e"," ","i","s"," ","i","t">>
    /\ outcome.kind = "time_local"
    /\ state.confidence = 80
    /\ confidence_level = "medium"
    /\ ~FollowUpInvoked

\* the handler answered a question from the retrieved documents
RagSearched ==
    /\ pc = "Replied"
    /\ handler_ops = <<"search_with_scores", "invoke_llm">>

\* the positions of the retrieved documents with content, restricted to the
\* files in keep when restricted is true
Usable(restricted, keep) ==
    {i \in DOMAIN retrieved :
        /\ Strip(retrieved[i].page_content) # <<>>
        /\ restricted => Filename(retrieved[i]) \in keep}

\* C29: when the document-search handler answers from retrieved documents
\* and the request names preferred sources of which at least one retrieved
\* document is, every returned source is a preferred one; when no retrieved
\* document is of a preferred source the answer is the one given without
\* any preference; the returned sources hold no duplicate and stand in the
\* order their documents were first retrieved, and unless the LLM call
\* failed they are the files of all the documents used
C29_PreferredSourcesFilter ==
    RagSearched =>
        LET preferred == PreferredSet(agent_request)
            matched == \E i \in DOMAIN retrieved :
                            Filename(retrieved[i]) \in preferred
            usable == Usable(matched, preferred)
            FirstAt(name) ==
                CHOOSE i \in usable :
                    /\ Filename(retrieved[i]) = name
                    /\ \A j \in usable : Filename(retrieved[j]) = name => i <= j
            src == outcome.sources
        IN  /\ matched => \A i \in DOMAIN src : src[i] \in preferred
            /\ ~matched =>
                 \E l \in RagLlmOutcomes :
                    outcome = RagExecuteAgent(
                        [agent_request EXCEPT !.metadata.preferred_sources = <<>>],
                        retrieved, <<>>, l)
            /\ llm # "raised" =>
                 {src[i] : i \in DOMAIN src}
                    = {Filename(retrieved[i]) : i \in usable}
            /\ \A i \in DOMAIN src :
                 \E j \in usable : Filename(retrieved[j]) = src[i]
            /\ \A i, j \in DOMAIN src :
                 i < j => /\ src[i] # src[j]
                          /\ FirstAt(src[i]) < FirstAt(src[j])

\* a request preferring a.pdf for which a.pdf, b.pdf and a.pdf again were
\* retrieved is answered with a.pdf as the only source
C29_Witness ==
    /\ RagSearched
    /\ agent_request.metadata.preferred_sources = <<"a.pdf">>
    /\ Len(retrieved) = 3
    /\ retrieved[1].filename = "a.pdf"
    /\ retrieved[2].filename = "b.pdf"
    /\ retrieved[3].filename = "a.pdf"
    /\ \A i \in DOMAIN retrieved : Strip(retrieved[i].page_content) # <<>>
    /\ outcome.sources = <<"a.pdf">>

\* the positions of the update_kpis calls before call i
UpdatesBefore(i) ==
    {j \in 1..(i - 1) : kpi_calls[j].op = "update_kpis"}

\* the greatest element of a non-empty set of positions
Latest(positions) == CHOOSE j \in positions : \A n \in positions : n <= j

\* C30: after any sequence of calls, every get_kpis made after an
\* update_kpis returned exactly the configuration of the most recent update,
\* whatever the indexed logs held; a get_kpis before the first update
\* returned thresholds detected from the logs or the defaults; and the store
\* holds the most recent update's configuration, or nothing when no update
\* has been made, so that no get_kpis has changed it
C30_LastWriterWins ==
    /\ \A i \in DOMAIN kpi_calls :
         kpi_calls[i].op = "get_kpis" =>
            IF UpdatesBefore(i) # {}
            THEN kpi_calls[i].config = kpi_calls[Latest(UpdatesBefore(i))].config
            ELSE kpi_calls[i].config \in
                    {KPIConfig} \cup {DetectKpisFromLogs(logs) :
                                        logs \in {l \in IndexedLogs :
                                                    l.kind = "snippets"}}
    /\ LET updates == UpdatesBefore(Len(kpi_calls) + 1)
       IN  custom_kpis =
             IF updates = {} THEN NoKpis
             ELSE [is_none |-> FALSE, config |-> kpi_calls[Latest(updates)].config]

\* two updates with different configurations, then a get_kpis that returned
\* the second one
C30_Witness ==
    /\ Len(kpi_calls) = 3
    /\ kpi_calls[1].op = "update_kpis"
    /\ kpi_calls[2].op = "update_kpis"
    /\ kpi_calls[3].op = "get_kpis"
    /\ kpi_calls[1].config # kpi_calls[2].config
    /\ kpi_calls[3].config = kpi_calls[2].config
    /\ kpi_calls[3].config.cpu.threshold = 50

\* the state a turn reaches on its own from its message and the collaborator
\* responses it was given: after the plan node, and after its agent node
AlonePlanned(turn) == PlanOf(InitialState(turn.message), turn.given.classifier)
AloneDispatched(turn) ==
    IF RoutePlan(AlonePlanned(turn)) \in {"direct", "time_location"}
    THEN LocalAgentOf(AlonePlanned(turn), turn.given.agent)
    ELSE HttpAgentOf(AlonePlanned(turn), turn.given.agent)

\* the ChatResponse a turn produces on its own
AloneResult(turn) ==
    IF Strip(turn.message) = <<>> THEN Answered("rejected")
    ELSE IF turn.given.classifier.kind = "raised" THEN Answered("error500")
    ELSE IF turn.given.agent.kind = "raised" THEN Answered("error500")
    ELSE ResultOf(turn.message, AloneDispatched(turn), turn.given.follow_up)

\* C23: however the steps of the turns interleave, a turn that has ended
\* has the result it produces alone from its own message and the
\* collaborator responses it was given, a suspended turn has in flight the
\* request it builds alone, and the shared agent client holds nothing but
\* its fixed address and timeout
C23_TurnsIndependent ==
    /\ \A t \in Turns :
         /\ turns[t].pc \in {"Done", "Error500", "Rejected"} =>
               turns[t].result = AloneResult(turns[t])
         /\ turns[t].pc = "Awaiting" =>
               turns[t].request = BuildAgentRequest(AlonePlanned(turns[t]))
    /\ agent_client \in {NoClient, AgentClient}

\* two turns with different messages, the first answered by the agent
\* endpoint while the second was suspended on its own call, both ended with
\* different answers
C23_Witness ==
    /\ turns[1].pc = "Done"
    /\ turns[2].pc = "Done"
    /\ turns[1].overlapped
    /\ turns[1].message # turns[2].message
    /\ turns[1].given.agent.kind = "ok"
    /\ turns[2].given.agent.kind = "timeout"
    /\ turns[1].result.response = turns[1].given.agent.text
    /\ turns[1].result # turns[2].result

====
